---- MODULE Spec2Model ----
(***************************************************************************)
(* Model of the wlfins indexer: the cron-triggered backfill handler        *)
(* (src/indexer.js, third variant), the long-running daemon                *)
(* (src/unnamed/part_000) and the Mongo-backed store they share            *)
(* (src/mongo.js).                                                         *)
(*                                                                         *)
(* JS strings that matter for canonicalization (hex node, decimal key) are *)
(* sequences of one-character strings, so that BigInt(hex).toString() is   *)
(* computed digit by digit and not assumed.  Hashes are 8 bits wide        *)
(* instead of 256.                                                         *)
(***************************************************************************)
EXTENDS Integers, Sequences, FiniteSets, TLC

\* ------------------------------------------------------------------------
\* Bounds of the model (not program constants)
\* ------------------------------------------------------------------------
MaxEvents == 2
MaxWindows == 2
MaxFailures == 1
MaxPolls == 1

\* ------------------------------------------------------------------------
\* Program constants
\* ------------------------------------------------------------------------
BLOCK_CHUNK_SIZE == 1000
DEPLOYMENT_BLOCK == 0
CRON_SECRET == "s3cret"

Names == {"alice", "bob"}
Categories == {"Transfer", "DomainRegistered", "DomainRenewed", "TextChanged"}

\* Block numbers the chain head can take: the blocks around every window
\* boundary of the first MaxWindows windows.
Blocks ==
  UNION { {w * BLOCK_CHUNK_SIZE, w * BLOCK_CHUNK_SIZE + 1} : w \in 0..(MaxWindows - 1) }

Min(a, b) == IF a < b THEN a ELSE b

\* ------------------------------------------------------------------------
\* Identifier encodings
\* ------------------------------------------------------------------------
DecDigits == <<"0", "1", "2", "3", "4", "5", "6", "7", "8", "9">>
HexDigits == <<"0", "1", "2", "3", "4", "5", "6", "7", "8", "9",
               "a", "b", "c", "d", "e", "f">>

\* ethers.namehash(name): a 0x-prefixed lowercase hex string
namehash(name) ==
  IF name = "alice" THEN <<"0", "x", "1", "b">> ELSE <<"0", "x", "0", "a">>

HexVal(c) == CHOOSE k \in 0..15 : HexDigits[k + 1] = c

RECURSIVE HexToInt(_, _)
HexToInt(s, acc) ==
  IF s = <<>> THEN acc ELSE HexToInt(Tail(s), acc * 16 + HexVal(Head(s)))

\* BigInt("0x...")
BigInt(hex) == HexToInt(SubSeq(hex, 3, Len(hex)), 0)

\* (n).toString() of a non-negative integer: decimal, no leading zeros
RECURSIVE toString(_)
toString(n) ==
  IF n < 10 THEN <<DecDigits[n + 1]>>
  ELSE toString(n \div 10) \o <<DecDigits[(n % 10) + 1]>>

\* What the chain puts on the wire for the entity called `name`
nodeFor(name) == namehash(name)
tokenIdFor(name) == BigInt(namehash(name))

\* Storage key computed by each event category
TransferKey(tokenId) == toString(tokenId)
NameKey(name) == toString(BigInt(namehash(name)))
\* the node is stored as it arrives
NodeKey_hex(node) == node

NodeKey(node) == toString(BigInt(node))

\* ------------------------------------------------------------------------
\* Field mapper
\* ------------------------------------------------------------------------
keyMapDomain ==
  {"description", "avatar", "url", "x", "com.github", "com.telegram", "com.discord"}

\* What an object literal inherits from Object.prototype: keyMap[key] finds
\* these members for any literal, and `{ [dbKey]: value }` names the field
\* String(member)
ObjectPrototype ==
  ("constructor" :> "function Object() { [native code] }")
  @@ ("toString" :> "function toString() { [native code] }")
  @@ ("valueOf" :> "function valueOf() { [native code] }")
  @@ ("hasOwnProperty" :> "function hasOwnProperty() { [native code] }")
  @@ ("__proto__" :> "[object Object]")

\* if (dbKey): undefined, written "", is the only falsy value a lookup yields
Truthy(dbKey) == dbKey /= ""

\* the lookup sees the own properties only
keyMap_ownOnly(key) ==
  CASE key = "description" -> "description"
    [] key = "avatar" -> "avatar"
    [] key = "url" -> "website"
    [] key = "x" -> "xUsername"
    [] key = "com.github" -> "github"
    [] key = "com.telegram" -> "telegram"
    [] key = "com.discord" -> "discord"
    [] OTHER -> ""

\* keyMap[key] of the triggered handler's literal
keyMap(key) ==
  CASE key = "description" -> "description"
    [] key = "avatar" -> "avatar"
    [] key = "url" -> "website"
    [] key = "x" -> "xUsername"
    [] key = "com.github" -> "github"
    [] key = "com.telegram" -> "telegram"
    [] key = "com.discord" -> "discord"
    [] key \in DOMAIN ObjectPrototype -> ObjectPrototype[key]
    [] OTHER -> ""

\* keyMap[key] of the daemon's backfill loop
keyMapHistorical(key) ==
  CASE key = "description" -> "description"
    [] key = "avatar" -> "avatar"
    [] key = "url" -> "website"
    [] key = "x" -> "xUsername"
    [] key = "com.github" -> "github"
    [] key = "com.telegram" -> "telegram"
    [] key = "com.discord" -> "discord"
    [] key \in DOMAIN ObjectPrototype -> ObjectPrototype[key]
    [] OTHER -> ""

\* keyMap[key] of the daemon's live TextChanged listener
keyMapLive(key) ==
  CASE key = "description" -> "description"
    [] key = "avatar" -> "avatar"
    [] key = "url" -> "website"
    [] key = "x" -> "xUsername"
    [] key = "com.github" -> "github"
    [] key = "com.telegram" -> "telegram"
    [] key = "com.discord" -> "discord"
    [] key \in DOMAIN ObjectPrototype -> ObjectPrototype[key]
    [] OTHER -> ""

\* keyMap[key] of the live TextChanged listener of the daemon's earlier
\* version (second main() of indexer.js)
keyMapLiveV2(key) ==
  CASE key = "description" -> "description"
    [] key = "avatar" -> "avatar"
    [] key = "x" -> "xUsername"
    [] key \in DOMAIN ObjectPrototype -> ObjectPrototype[key]
    [] OTHER -> ""

\* The (tokenId, newData) pair a decoded event hands to updateDatabase

\* a transfer also restarts the expiry
TransferWrite_resetsExpiry(e) ==
  [tokenId |-> TransferKey(tokenIdFor(e.ent)),
   newData |-> [owner |-> e.addr, expiry |-> <<"0">>]]

TransferWrite(e) ==
  [tokenId |-> TransferKey(tokenIdFor(e.ent)), newData |-> [owner |-> e.addr]]

\* the registration body is the renewal body: the owner is left out
RegisteredWrite_asRenewal(e) ==
  [tokenId |-> NameKey(e.ent),
   newData |-> [name |-> e.ent, expiry |-> toString(e.exp)]]

RegisteredWrite(e) ==
  [tokenId |-> NameKey(e.ent),
   newData |-> [name |-> e.ent, owner |-> e.addr, expiry |-> toString(e.exp)]]

\* the renewal written like a registration, owner included
RenewedWrite_withOwner(e) ==
  [tokenId |-> NameKey(e.ent),
   newData |-> [name |-> e.ent, owner |-> e.addr, expiry |-> toString(e.exp)]]

RenewedWrite(e) ==
  [tokenId |-> NameKey(e.ent),
   newData |-> [name |-> e.ent, expiry |-> toString(e.exp)]]

TextChangedWrite(e) ==
  [tokenId |-> NodeKey(nodeFor(e.ent)),
   newData |-> (keyMap(e.key) :> e.val)]

\* Does the backfill loop body reach updateDatabase for this event?
Applies(e) ==
  /\ e.ok
  /\ e.cat = "TextChanged" => Truthy(keyMap(e.key))

WriteOf(e) ==
  CASE e.cat = "Transfer" -> TransferWrite(e)
    [] e.cat = "DomainRegistered" -> RegisteredWrite(e)
    [] e.cat = "DomainRenewed" -> RenewedWrite(e)
    [] e.cat = "TextChanged" -> TextChangedWrite(e)

\* The same two questions for the backfill loop of the daemon, whose bodies
\* differ from the handler's in their keyMap literal and their diagnostics
HistoricalApplies(e) ==
  /\ e.ok
  /\ e.cat = "TextChanged" => Truthy(keyMapHistorical(e.key))

HistoricalWriteOf(e) ==
  CASE e.cat = "Transfer" ->
         [tokenId |-> toString(tokenIdFor(e.ent)), newData |-> [owner |-> e.addr]]
    [] e.cat = "DomainRegistered" ->
         [tokenId |-> toString(BigInt(namehash(e.ent))),
          newData |-> [name |-> e.ent, owner |-> e.addr, expiry |-> toString(e.exp)]]
    [] e.cat = "DomainRenewed" ->
         [tokenId |-> toString(BigInt(namehash(e.ent))),
          newData |-> [name |-> e.ent, expiry |-> toString(e.exp)]]
    [] e.cat = "TextChanged" ->
         [tokenId |-> toString(BigInt(nodeFor(e.ent))),
          newData |-> (keyMapHistorical(e.key) :> e.val)]

\* ------------------------------------------------------------------------
\* Store: the 'domains' collection is a sequence of documents
\* ------------------------------------------------------------------------
Matching(coll, tokenId) == {k \in 1..Len(coll) : coll[k].tokenId = tokenId}

\* insertOne in place of the upsert
updateOne_insertOne(coll, tokenId, newData) ==
  Append(coll, newData @@ [tokenId |-> tokenId])

\* collection.updateOne({tokenId}, {$set: newData}, {upsert: true})
updateOne(coll, tokenId, newData) ==
  IF Matching(coll, tokenId) = {}
  THEN Append(coll, newData @@ [tokenId |-> tokenId])
  ELSE LET k == CHOOSE j \in Matching(coll, tokenId) :
                  \A m \in Matching(coll, tokenId) : j <= m
       IN [coll EXCEPT ![k] = newData @@ coll[k]]

\* collection.updateOne({}, {$set: {lastProcessedBlock: n}}, {upsert: true})
updateState(coll, n) ==
  IF coll = <<>>
  THEN <<[lastProcessedBlock |-> n]>>
  ELSE [coll EXCEPT ![1] = [lastProcessedBlock |-> n] @@ coll[1]]

\* getAndSetLastProcessedBlock(db) with newBlockNumber = null:
\* findOne({}) and the DEPLOYMENT_BLOCK fallback
readLastProcessedBlock(coll) ==
  IF coll = <<>> THEN DEPLOYMENT_BLOCK ELSE coll[1].lastProcessedBlock

\* ------------------------------------------------------------------------
\* State
\* ------------------------------------------------------------------------
VARIABLES
  head,           \* chain: number of the latest mined block
  log,            \* chain: the append-only event log, in (block, logIndex) order
  domains,        \* store: the 'domains' collection
  indexer_state,  \* store: the 'indexer_state' collection (the cursor)
  db,             \* mongo.js: the module-level handle is set
  h,              \* trigger handler: one record of locals per invocation slot
  nfail,          \* number of store writes that have failed so far
  budget,         \* number of store writes the environment lets fail
  base,           \* history: 'domains' when a triggered run last completed
  baseState,      \* history: 'indexer_state' at that moment
  clean,          \* history: no store write failed since then
  cuts,           \* history: 1 if a run was cut short after a record write since then
  d,              \* daemon: the locals of main() and its position
  pending,        \* daemon: live deliveries whose handler has not written yet
  applied         \* history: log positions handed to updateDatabase so far

vars == <<head, log, domains, indexer_state, db, h, nfail, budget,
          base, baseState, clean, cuts, d, pending, applied>>

Invs == {"a", "b"}

Undefined == <<>>
Bearer(secret) == <<"Bearer ", secret>>
AuthHeaders == {Bearer(CRON_SECRET), Bearer("wrong"), Undefined}

ZeroCnt == [Transfer |-> 0, DomainRegistered |-> 0, DomainRenewed |-> 0,
            TextChanged |-> 0]

CatOrder == <<"Transfer", "DomainRegistered", "DomainRenewed", "TextChanged">>

DaemonOff ==
  [pc |-> "off", blockNumber |-> -1, polls |-> 0, currentBlock |-> 0, i |-> 0,
   cat |-> 1, queue |-> <<>>, cnt |-> ZeroCnt, queries |-> <<>>, errors |-> 0]

IdleHandler ==
  [pc |-> "idle", auth |-> Undefined, currentBlock |-> 0,
   lastProcessedBlock |-> 0, i |-> 0, cat |-> 1, queue |-> <<>>,
   cnt |-> ZeroCnt, status |-> 0, body |-> "", touched |-> {},
   queries |-> <<>>, errors |-> 0]

\* ------------------------------------------------------------------------
\* Chain (event source)
\* ------------------------------------------------------------------------
LastBlk == IF log = <<>> THEN 0 ELSE log[Len(log)].blk

Event(cat, blk, ok, ent, addr, exp, key, val) ==
  [cat |-> cat, blk |-> blk, ok |-> ok, ent |-> ent, addr |-> addr,
   exp |-> exp, key |-> key, val |-> val]

\* Addresses, expiries and text values are opaque to the indexer; the
\* k-th event carries the k-th of each, so that a stored value names the
\* event it came from.
Addr(k) == <<"0x", k>>
Expires(k) == 1700000000 + k
TextValue(k) == <<"handle", k>>

\* A log entry of category c about entity n, stamped with its block and its
\* position in the log
Stamp(t, blk, k) ==
  CASE ~t.ok -> Event(t.cat, blk, FALSE, t.ent, <<>>, 0, "-", <<>>)
    [] t.ok /\ t.cat = "Transfer" ->
         Event("Transfer", blk, TRUE, t.ent,
               IF "to" \in t.miss THEN Undefined ELSE Addr(k), 0, "-", <<>>)
    [] t.ok /\ t.cat \in {"DomainRegistered", "DomainRenewed"} ->
         Event(t.cat, blk, TRUE, t.ent,
               IF "owner" \in t.miss THEN Undefined ELSE Addr(k), Expires(k),
               "-", <<>>)
    [] t.ok /\ t.cat = "TextChanged" ->
         Event("TextChanged", blk, TRUE, t.ent, <<>>, 0, t.key,
               IF "value" \in t.miss THEN Undefined ELSE TextValue(k))

Transfer(n) ==
  [cat |-> "Transfer", ok |-> TRUE, ent |-> n, key |-> "-", miss |-> {}]
DomainRegistered(n) ==
  [cat |-> "DomainRegistered", ok |-> TRUE, ent |-> n, key |-> "-", miss |-> {}]
DomainRenewed(n) ==
  [cat |-> "DomainRenewed", ok |-> TRUE, ent |-> n, key |-> "-", miss |-> {}]
TextChanged(n, key) ==
  [cat |-> "TextChanged", ok |-> TRUE, ent |-> n, key |-> key, miss |-> {}]
\* a log entry the provider could not decode (event.args is undefined; a
\* listener is called with every argument undefined)
Undecoded(c) ==
  [cat |-> c, ok |-> FALSE, ent |-> "alice", key |-> "-", miss |-> {}]
\* a decoded entry in which the arguments named in `miss` are undefined
Without(t, miss) == [t EXCEPT !.miss = miss]

\* Alphabet of the triggered-handler specification
CoreEvents ==
  {Transfer("alice"), DomainRegistered("alice"), TextChanged("alice", "x"),
   Undecoded("Transfer")}

\* queryFilter(filter, fromBlock, toBlock): indices into the log, log order
RECURSIVE queryFrom(_, _, _, _)
queryFrom(k, cat, fromBlock, toBlock) ==
  IF k > Len(log) THEN <<>>
  ELSE IF /\ log[k].cat = cat
          /\ fromBlock <= log[k].blk
          /\ log[k].blk <= toBlock
       THEN <<k>> \o queryFrom(k + 1, cat, fromBlock, toBlock)
       ELSE queryFrom(k + 1, cat, fromBlock, toBlock)

\* the provider returns the newest entry first
queryFilter_newestFirst(cat, fromBlock, toBlock) ==
  LET q == queryFrom(1, cat, fromBlock, toBlock)
  IN [j \in 1..Len(q) |-> q[Len(q) + 1 - j]]

queryFilter(cat, fromBlock, toBlock) == queryFrom(1, cat, fromBlock, toBlock)

\* A contract emits an event into a block that is not mined yet
EmitFrom(Alphabet) ==
  /\ Len(log) < MaxEvents
  /\ \E b \in Blocks :
       /\ b > head
       /\ b >= LastBlk
       /\ \E t \in Alphabet : log' = Append(log, Stamp(t, b, Len(log) + 1))
  /\ UNCHANGED <<budget, head, domains, indexer_state, db, h, nfail,
                 base, baseState, clean, cuts,
                 d, pending, applied>>

Emit == EmitFrom(CoreEvents)

\* The chain head advances; listeners that are attached are handed the
\* events of the new blocks
Mine ==
  /\ \E b \in Blocks :
       /\ b > head
       /\ head' = b
       /\ pending' = IF d.pc = "listening"
                     THEN pending \cup {k \in 1..Len(log) :
                                          head < log[k].blk /\ log[k].blk <= b}
                     ELSE pending
  /\ UNCHANGED <<budget, log, domains, indexer_state, db, h, nfail,
                 base, baseState, clean, cuts, d, applied>>

\* ------------------------------------------------------------------------
\* Triggered handler (module.exports)
\* ------------------------------------------------------------------------
\* only the scheme of the header is compared
Authorized_schemeOnly(authHeader) ==
  authHeader /= Undefined /\ authHeader[1] = "Bearer "

Authorized(authHeader) == authHeader = Bearer(CRON_SECRET)

\* the window end is one block too far
ToBlock_inclusive(i, currentBlock) == Min(i + BLOCK_CHUNK_SIZE, currentBlock)

\* the window end is not clipped to the captured head
ToBlock_unclipped(i, currentBlock) == i + BLOCK_CHUNK_SIZE - 1

ToBlock(i, currentBlock) == Min(i + BLOCK_CHUNK_SIZE - 1, currentBlock)

NextStart(i) == i + BLOCK_CHUNK_SIZE

\* The synchronous part of the loop nest that runs after an await resumes:
\* skip events the body `continue`s over or maps to no field, move to the
\* next category, the next window or the cursor write.
\* The daemon's loop ends in "listening", the handler's in "setCursor".
LoopApplies(after, e) ==
  IF after = "listening" THEN HistoricalApplies(e) ELSE Applies(e)

\* `if (!event.args)`: the daemon writes a console.error line before its
\* `continue`, the handler has the bare `continue`
LoopReports(after, e) == after = "listening" /\ ~e.ok

RECURSIVE ResumeLoop(_, _)
ResumeLoop(r, after) ==
  IF r.queue /= <<>>
  THEN IF LoopApplies(after, log[Head(r.queue)])
       THEN [r EXCEPT !.pc = "apply"]
       ELSE ResumeLoop([r EXCEPT !.queue = Tail(r.queue),
                                 !.errors = IF LoopReports(after, log[Head(r.queue)])
                                            THEN @ + 1 ELSE @],
                       after)
  ELSE IF r.cat < 4
       THEN [r EXCEPT !.pc = "query", !.cat = r.cat + 1]
       ELSE IF NextStart(r.i) <= r.currentBlock
            THEN [r EXCEPT !.pc = "query", !.cat = 1, !.i = NextStart(r.i)]
            ELSE [r EXCEPT !.pc = after, !.i = NextStart(r.i)]

Resume(r) == ResumeLoop(r, "setCursor")

\* res.status(status).send(body) ends the invocation: its locals are gone,
\* the summary carries the counters
Respond(r, status, body) ==
  [IdleHandler EXCEPT !.pc = "done", !.status = status, !.body = body,
                      !.auth = r.auth, !.touched = r.touched,
                      !.currentBlock = IF body = "summary" THEN r.currentBlock ELSE 0,
                      !.lastProcessedBlock =
                         IF body = "summary" THEN r.lastProcessedBlock ELSE 0,
                      !.cnt = IF body = "summary" THEN r.cnt ELSE ZeroCnt]

\* The request arrives; the security check runs before the first await
TriggerRequest(inv, authHeader) ==
  /\ h[inv].pc \in {"idle", "done"}
  /\ h' = [h EXCEPT ![inv] =
       IF Authorized(authHeader)
       THEN [IdleHandler EXCEPT !.pc = "connect", !.auth = authHeader]
       ELSE Respond([IdleHandler EXCEPT !.auth = authHeader], 401, "Unauthorized")]
  /\ UNCHANGED <<budget, head, log, domains, indexer_state, db, nfail,
                 base, baseState, clean, cuts,
                 d, pending, applied>>

\* await connectToServer(); getDB(); await provider.ready
Connect(inv) ==
  /\ h[inv].pc = "connect"
  /\ db' = TRUE
  /\ h' = [h EXCEPT ![inv].pc = "head", ![inv].touched = @ \cup {"connect"}]
  /\ UNCHANGED <<budget, head, log, domains, indexer_state, nfail,
                 base, baseState, clean, cuts,
                 d, pending, applied>>

\* const currentBlock = await provider.getBlockNumber()
GetBlockNumber(inv) ==
  /\ h[inv].pc = "head"
  /\ h' = [h EXCEPT ![inv].pc = "cursor", ![inv].currentBlock = head,
                    ![inv].touched = @ \cup {"rpc"}]
  /\ UNCHANGED <<budget, head, log, domains, indexer_state, db, nfail,
                 base, baseState, clean, cuts,
                 d, pending, applied>>

\* the early return is taken only when the cursor is above the head
ReadCursor_strict(inv) ==
  /\ h[inv].pc = "cursor"
  /\ LET lpb == readLastProcessedBlock(indexer_state)
         r == [h[inv] EXCEPT !.lastProcessedBlock = lpb,
                             !.touched = @ \cup {"cursor"}]
     IN h' = [h EXCEPT ![inv] =
          IF lpb > r.currentBlock
          THEN Respond(r, 200, "No new blocks to process.")
          ELSE IF lpb = r.currentBlock
               THEN [r EXCEPT !.pc = "setCursor", !.i = lpb + 1]
               ELSE [r EXCEPT !.pc = "query", !.cat = 1, !.i = lpb + 1]]
  /\ UNCHANGED <<budget, head, log, domains, indexer_state, db, nfail,
                 base, baseState, clean, cuts,
                 d, pending, applied>>

\* the loop starts at lastProcessedBlock itself
ReadCursor_fromCursor(inv) ==
  /\ h[inv].pc = "cursor"
  /\ LET lpb == readLastProcessedBlock(indexer_state)
         r == [h[inv] EXCEPT !.lastProcessedBlock = lpb,
                             !.touched = @ \cup {"cursor"}]
     IN h' = [h EXCEPT ![inv] =
          IF lpb >= r.currentBlock
          THEN Respond(r, 200, "No new blocks to process.")
          ELSE [r EXCEPT !.pc = "query", !.cat = 1, !.i = lpb]]
  /\ UNCHANGED <<budget, head, log, domains, indexer_state, db, nfail,
                 base, baseState, clean, cuts,
                 d, pending, applied>>

\* let lastProcessedBlock = await getAndSetLastProcessedBlock(db), then the
\* "no new blocks" test and the first iteration's bounds
ReadCursor(inv) ==
  /\ h[inv].pc = "cursor"
  /\ LET lpb == readLastProcessedBlock(indexer_state)
         r == [h[inv] EXCEPT !.lastProcessedBlock = lpb,
                             !.touched = @ \cup {"cursor"}]
     IN h' = [h EXCEPT ![inv] =
          IF lpb >= r.currentBlock
          THEN Respond(r, 200, "No new blocks to process.")
          ELSE [r EXCEPT !.pc = "query", !.cat = 1, !.i = lpb + 1]]
  /\ UNCHANGED <<budget, head, log, domains, indexer_state, db, nfail,
                 base, baseState, clean, cuts,
                 d, pending, applied>>

\* the cursor is checkpointed when a window's first query returns, before
\* the window's events are applied
Query_checkpointFirst(inv) ==
  /\ h[inv].pc = "query"
  /\ LET r == h[inv]
         fromBlock == r.i
         toBlock == ToBlock(r.i, r.currentBlock)
         c == CatOrder[r.cat]
     IN /\ h' = [h EXCEPT ![inv] =
             Resume([r EXCEPT !.queue = queryFilter(c, fromBlock, toBlock),
                              !.touched = @ \cup {"rpc"},
                              !.queries = Append(@, [cat |-> c, from |-> fromBlock,
                                                     to |-> toBlock])])]
        /\ indexer_state' = updateState(indexer_state, toBlock)
  /\ UNCHANGED <<budget, head, log, domains, db, nfail,
                 base, baseState, clean, cuts, d, pending, applied>>

\* await <contract>.queryFilter(filter, fromBlock, toBlock)
Query(inv) ==
  /\ h[inv].pc = "query"
  /\ LET r == h[inv]
         fromBlock == r.i
         toBlock == ToBlock(r.i, r.currentBlock)
         c == CatOrder[r.cat]
     IN h' = [h EXCEPT ![inv] =
          Resume([r EXCEPT !.queue = queryFilter(c, fromBlock, toBlock),
                           !.touched = @ \cup {"rpc"},
                           !.queries = Append(@, [cat |-> c, from |-> fromBlock,
                                                  to |-> toBlock])])]
  /\ UNCHANGED <<budget, head, log, domains, indexer_state, db, nfail,
                 base, baseState, clean, cuts,
                 d, pending, applied>>

\* await updateDatabase(tokenId, newData, false); processed<Cat>Events++
\* updateDatabase swallows a store error, so the counter moves either way.
\* replaceOne in place of the $set: the document becomes the new data
updateDatabase_replace(coll, w) ==
  IF Matching(coll, w.tokenId) = {}
  THEN Append(coll, w.newData @@ [tokenId |-> w.tokenId])
  ELSE LET k == CHOOSE j \in Matching(coll, w.tokenId) :
                  \A m \in Matching(coll, w.tokenId) : j <= m
       IN [coll EXCEPT ![k] = w.newData @@ [tokenId |-> w.tokenId]]

updateDatabase(coll, w) == updateOne(coll, w.tokenId, w.newData)

\* updateDatabase without its try/catch: the store error reaches the
\* handler's catch block
Apply_unguarded(inv) ==
  /\ h[inv].pc = "apply"
  /\ LET r == h[inv]
         e == log[Head(r.queue)]
     IN /\ \/ /\ domains' = updateDatabase(domains, WriteOf(e))
              /\ h' = [h EXCEPT ![inv] =
                   Resume([r EXCEPT !.queue = Tail(r.queue),
                                    !.cnt[e.cat] = @ + 1,
                                    !.touched = @ \cup {"write"}])]
              /\ UNCHANGED <<nfail, clean>>
           \/ /\ nfail < budget
              /\ nfail' = nfail + 1
              /\ clean' = FALSE
              /\ h' = [h EXCEPT ![inv] =
                   Respond([r EXCEPT !.touched = @ \cup {"write"}],
                           500, "Internal Server Error")]
              /\ UNCHANGED domains
        /\ applied' = applied \cup {Head(r.queue)}
  /\ UNCHANGED <<budget, head, log, indexer_state, db, base, baseState, cuts,
                 d, pending>>

\* updateDatabase is called without await: the loop goes on while the write
\* is still on its way
Apply_notAwaited(inv) ==
  /\ h[inv].pc = "apply"
  /\ LET r == h[inv]
         e == log[Head(r.queue)]
     IN h' = [h EXCEPT ![inv] =
          Resume([r EXCEPT !.queue = Tail(r.queue),
                           !.cnt[e.cat] = @ + 1,
                           !.touched = @ \cup {"write"}])]
  /\ UNCHANGED <<budget, head, log, domains, indexer_state, db, nfail, clean,
                 base, baseState, cuts, d, pending, applied>>

Apply(inv) ==
  /\ h[inv].pc = "apply"
  /\ LET r == h[inv]
         e == log[Head(r.queue)]
     IN /\ \/ /\ domains' = updateDatabase(domains, WriteOf(e))
              /\ UNCHANGED <<nfail, clean>>
           \/ /\ nfail < budget
              /\ nfail' = nfail + 1
              /\ clean' = FALSE
              /\ UNCHANGED domains
        /\ h' = [h EXCEPT ![inv] =
             Resume([r EXCEPT !.queue = Tail(r.queue),
                              !.cnt[e.cat] = @ + 1,
                              !.touched = @ \cup {"write"}])]
        /\ applied' = applied \cup {Head(r.queue)}
  /\ UNCHANGED <<budget, head, log, indexer_state, db, base, baseState, cuts,
                 d, pending>>

\* await getAndSetLastProcessedBlock(db, currentBlock); res.status(200)
SetCursor(inv) ==
  /\ h[inv].pc = "setCursor"
  /\ indexer_state' = updateState(indexer_state, h[inv].currentBlock)
  /\ h' = [h EXCEPT ![inv] =
       Respond([h[inv] EXCEPT !.touched = @ \cup {"cursor"}], 200, "summary")]
  /\ base' = domains
  /\ baseState' = indexer_state'
  /\ clean' = TRUE
  /\ cuts' = 0
  /\ UNCHANGED <<budget, head, log, domains, db, nfail,
                 d, pending, applied>>

\* the catch block checkpoints the captured head before it answers
Throw_checkpoints(inv) ==
  /\ h[inv].pc \in {"head", "cursor", "query", "setCursor"}
  /\ h' = [h EXCEPT ![inv] = Respond(h[inv], 500, "Internal Server Error")]
  /\ cuts' = IF "write" \in h[inv].touched THEN 1 ELSE cuts
  /\ indexer_state' = IF h[inv].pc \in {"query", "setCursor"}
                      THEN updateState(indexer_state, h[inv].currentBlock)
                      ELSE indexer_state
  /\ UNCHANGED <<budget, head, log, domains, db, nfail,
                 base, baseState, clean,
                 d, pending, applied>>

\* An awaited RPC or cursor call rejects: the catch block answers 500
Throw(inv) ==
  /\ h[inv].pc \in {"head", "cursor", "query", "setCursor"}
  /\ h' = [h EXCEPT ![inv] = Respond(h[inv], 500, "Internal Server Error")]
  /\ cuts' = IF "write" \in h[inv].touched THEN 1 ELSE cuts
  /\ UNCHANGED <<budget, head, log, domains, indexer_state, db, nfail,
                 base, baseState, clean,
                 d, pending, applied>>

\* The process running the invocation is killed between two awaits
Interrupt(inv) ==
  /\ h[inv].pc \in {"connect", "head", "cursor", "query", "apply", "setCursor"}
  /\ h' = [h EXCEPT ![inv] = IdleHandler]
  /\ cuts' = IF "write" \in h[inv].touched THEN 1 ELSE cuts
  /\ UNCHANGED <<budget, head, log, domains, indexer_state, db, nfail,
                 base, baseState, clean,
                 d, pending, applied>>

\* The steps of an invocation that nothing disturbs
RunStep(inv) ==
  \/ \E authHeader \in AuthHeaders : TriggerRequest(inv, authHeader)
  \/ Connect(inv)
  \/ GetBlockNumber(inv)
  \/ ReadCursor(inv)
  \/ Query(inv)
  \/ Apply(inv)
  \/ SetCursor(inv)

Step(inv) ==
  \/ RunStep(inv)
  \/ Throw(inv)
  \/ Interrupt(inv)

Init ==
  /\ head = 0
  /\ log = <<>>
  /\ domains = <<>>
  /\ indexer_state = <<>>
  /\ db = FALSE
  /\ h = [inv \in Invs |-> IdleHandler]
  /\ nfail = 0
  /\ budget = 0
  /\ base = <<>>
  /\ baseState = <<>>
  /\ clean = TRUE
  /\ cuts = 0
  /\ d = DaemonOff
  /\ pending = {}
  /\ applied = {}

\* The same, with a store that may reject up to MaxFailures writes
InitFaulty ==
  /\ head = 0
  /\ log = <<>>
  /\ domains = <<>>
  /\ indexer_state = <<>>
  /\ db = FALSE
  /\ h = [inv \in Invs |-> IdleHandler]
  /\ nfail = 0
  /\ budget = MaxFailures
  /\ base = <<>>
  /\ baseState = <<>>
  /\ clean = TRUE
  /\ cuts = 0
  /\ d = DaemonOff
  /\ pending = {}
  /\ applied = {}

\* One invocation at a time
Next ==
  \/ Emit
  \/ Mine
  \/ Step("a")

Spec == Init /\ [][Next]_vars

SpecFaulty == InitFaulty /\ [][Next]_vars

\* ------------------------------------------------------------------------
\* Two invocations of the handler overlapping in time
\* ------------------------------------------------------------------------
TransferEvents == {Transfer("alice")}

EmitTransfer == EmitFrom(TransferEvents)

NextOverlap ==
  \/ EmitTransfer
  \/ Mine
  \/ RunStep("a")
  \/ RunStep("b")

SpecOverlap == Init /\ [][NextOverlap]_vars

\* ------------------------------------------------------------------------
\* Daemon (main of the long-running indexer)
\* ------------------------------------------------------------------------
DaemonResume(r) == ResumeLoop(r, "listening")

\* What a live listener hands to updateDatabase
LiveWriteOf(e) ==
  CASE e.cat = "Transfer" ->
         [tokenId |-> toString(tokenIdFor(e.ent)), newData |-> [owner |-> e.addr]]
    [] e.cat = "DomainRegistered" ->
         [tokenId |-> toString(BigInt(namehash(e.ent))),
          newData |-> [name |-> e.ent, owner |-> e.addr, expiry |-> toString(e.exp)]]
    [] e.cat = "DomainRenewed" ->
         [tokenId |-> toString(BigInt(namehash(e.ent))),
          newData |-> [name |-> e.ent, expiry |-> toString(e.exp)]]
    [] e.cat = "TextChanged" ->
         [tokenId |-> toString(BigInt(nodeFor(e.ent))),
          newData |-> (keyMapLive(e.key) :> e.val)]

\* Does a live listener reach updateDatabase for this delivery?  Undecoded
\* arguments stop the Transfer listener at its guard and make the others
\* throw inside their try block.
LiveApplies(e) ==
  /\ e.ok
  /\ e.cat = "Transfer" => e.addr /= Undefined
  /\ e.cat = "TextChanged" => Truthy(keyMapLive(e.key))

\* The process starts: await connectToServer()
DaemonStart ==
  /\ d.pc \in {"off", "exited"}
  /\ db' = TRUE
  /\ d' = [DaemonOff EXCEPT !.pc = "poll"]
  /\ UNCHANGED <<budget, head, log, domains, indexer_state, h, nfail,
                 base, baseState, clean, cuts, pending, applied>>

\* Readiness loop: blockNumber = await provider.getBlockNumber()
Poll ==
  /\ d.pc = "poll"
  /\ d' = [d EXCEPT !.blockNumber = head,
                    !.pc = IF head < 0 THEN "poll" ELSE "head"]
  /\ UNCHANGED <<budget, head, log, domains, indexer_state, db, h, nfail,
                 base, baseState, clean, cuts, pending, applied>>

\* Readiness loop: the call rejects, wait 2 s and try again
PollFail ==
  /\ d.pc = "poll"
  /\ d.polls < MaxPolls
  /\ d' = [d EXCEPT !.polls = @ + 1]
  /\ UNCHANGED <<budget, head, log, domains, indexer_state, db, h, nfail,
                 base, baseState, clean, cuts, pending, applied>>

\* const currentBlock = await provider.getBlockNumber(); the loop starts at
\* DEPLOYMENT_BLOCK
DaemonHead ==
  /\ d.pc = "head"
  /\ d' = IF DEPLOYMENT_BLOCK <= head
          THEN [d EXCEPT !.currentBlock = head, !.pc = "query", !.cat = 1,
                         !.i = DEPLOYMENT_BLOCK]
          ELSE [d EXCEPT !.currentBlock = head, !.pc = "listening",
                         !.i = DEPLOYMENT_BLOCK]
  /\ UNCHANGED <<budget, head, log, domains, indexer_state, db, h, nfail,
                 base, baseState, clean, cuts, pending, applied>>

DaemonQuery ==
  /\ d.pc = "query"
  /\ LET fromBlock == d.i
         toBlock == ToBlock(d.i, d.currentBlock)
         c == CatOrder[d.cat]
     IN d' = DaemonResume([d EXCEPT
               !.queue = queryFilter(c, fromBlock, toBlock),
               !.queries = Append(@, [cat |-> c, from |-> fromBlock,
                                      to |-> toBlock])])
  /\ UNCHANGED <<budget, head, log, domains, indexer_state, db, h, nfail,
                 base, baseState, clean, cuts, pending, applied>>

DaemonApply ==
  /\ d.pc = "apply"
  /\ LET e == log[Head(d.queue)]
     IN /\ \/ /\ domains' = updateDatabase(domains, HistoricalWriteOf(e))
              /\ UNCHANGED <<nfail, clean>>
           \/ /\ nfail < budget
              /\ nfail' = nfail + 1
              /\ clean' = FALSE
              /\ UNCHANGED domains
        /\ d' = DaemonResume([d EXCEPT
                  !.queue = Tail(d.queue),
                  !.cnt[e.cat] = IF e.cat = "TextChanged" THEN @ ELSE @ + 1])
        /\ applied' = applied \cup {Head(d.queue)}
  /\ UNCHANGED <<budget, head, log, indexer_state, db, h, base, baseState, cuts, pending>>

\* An awaited provider call of the backfill rejects: main().catch exits
DaemonThrow ==
  /\ d.pc \in {"head", "query"}
  /\ d' = [DaemonOff EXCEPT !.pc = "exited"]
  /\ pending' = {}
  /\ UNCHANGED <<budget, head, log, domains, indexer_state, db, h, nfail,
                 base, baseState, clean, cuts, applied>>

\* read-modify-write in the listener: two deliveries in flight read the
\* store before either writes, and the second writes back the document it
\* read, merged with its own data
LiveApply_readModifyWrite ==
  /\ d.pc = "listening"
  /\ \E k \in pending :
       /\ \A m \in pending : log[m].cat = log[k].cat => k <= m
       /\ LET others == {m \in pending \ {k} : LiveApplies(log[m])}
              both == LiveApplies(log[k]) /\ others /= {}
          IN /\ pending' = IF both THEN pending \ ({k} \cup others) ELSE pending \ {k}
             /\ IF LiveApplies(log[k])
                THEN /\ domains' = updateDatabase(domains, LiveWriteOf(log[k]))
                     /\ applied' = applied \cup {k} \cup (IF both THEN others ELSE {})
                ELSE UNCHANGED <<domains, applied>>
  /\ UNCHANGED <<budget, head, log, indexer_state, db, h, base, baseState, cuts, d,
                 nfail, clean>>

\* the listener also checkpoints the block of the event it has handled
LiveApply_checkpoints ==
  /\ d.pc = "listening"
  /\ \E k \in pending :
       /\ \A m \in pending : log[m].cat = log[k].cat => k <= m
       /\ pending' = pending \ {k}
       /\ indexer_state' = updateState(indexer_state, log[k].blk)
       /\ IF LiveApplies(log[k])
          THEN /\ \/ /\ domains' = updateDatabase(domains, LiveWriteOf(log[k]))
                     /\ UNCHANGED <<nfail, clean>>
                  \/ /\ nfail < budget
                     /\ nfail' = nfail + 1
                     /\ clean' = FALSE
                     /\ UNCHANGED domains
               /\ applied' = applied \cup {k}
          ELSE UNCHANGED <<domains, nfail, clean, applied>>
  /\ UNCHANGED <<budget, head, log, db, h, base, baseState, cuts, d>>

\* A listener callback runs for a delivered event and its write lands.
\* Each subscription hands over its events in log order; the four
\* subscriptions are not ordered with respect to one another.
LiveApply ==
  /\ d.pc = "listening"
  /\ \E k \in pending :
       /\ \A m \in pending : log[m].cat = log[k].cat => k <= m
       /\ pending' = pending \ {k}
       /\ IF LiveApplies(log[k])
          THEN /\ \/ /\ domains' = updateDatabase(domains, LiveWriteOf(log[k]))
                     /\ UNCHANGED <<nfail, clean>>
                  \/ /\ nfail < budget
                     /\ nfail' = nfail + 1
                     /\ clean' = FALSE
                     /\ UNCHANGED domains
               /\ applied' = applied \cup {k}
          ELSE UNCHANGED <<domains, nfail, clean, applied>>
  /\ UNCHANGED <<budget, head, log, indexer_state, db, h, base, baseState, cuts, d>>

DaemonEvents ==
  {Transfer("alice"), DomainRegistered("alice"), TextChanged("alice", "x"),
   Undecoded("DomainRenewed")}

EmitDaemon == EmitFrom(DaemonEvents)

NextDaemon ==
  \/ EmitDaemon
  \/ Mine
  \/ DaemonStart
  \/ Poll
  \/ PollFail
  \/ DaemonHead
  \/ DaemonQuery
  \/ DaemonApply
  \/ DaemonThrow
  \/ LiveApply

SpecDaemon == Init /\ [][NextDaemon]_vars

\* ------------------------------------------------------------------------
\* The daemon's listeners and a triggered run sharing the store
\* ------------------------------------------------------------------------
NextMixed ==
  \/ EmitTransfer
  \/ Mine
  \/ DaemonStart
  \/ Poll
  \/ DaemonHead
  \/ DaemonQuery
  \/ DaemonApply
  \/ LiveApply
  \/ RunStep("a")

SpecMixed == Init /\ [][NextMixed]_vars

\* ------------------------------------------------------------------------
\* One uninterrupted backfill run, as a function of the store it starts from
\* ------------------------------------------------------------------------
RECURSIVE ApplyAll(_, _)
ApplyAll(coll, q) ==
  IF q = <<>> THEN coll
  ELSE ApplyAll(IF Applies(log[Head(q)])
                THEN updateDatabase(coll, WriteOf(log[Head(q)]))
                ELSE coll,
                Tail(q))

RECURSIVE RunCategories(_, _, _, _)
RunCategories(coll, c, fromBlock, toBlock) ==
  IF c > 4 THEN coll
  ELSE RunCategories(ApplyAll(coll, queryFilter(CatOrder[c], fromBlock, toBlock)),
                     c + 1, fromBlock, toBlock)

RECURSIVE RunFrom(_, _, _)
RunFrom(coll, i, currentBlock) ==
  IF i > currentBlock THEN coll
  ELSE RunFrom(RunCategories(coll, 1, i, ToBlock(i, currentBlock)),
               NextStart(i), currentBlock)

\* ------------------------------------------------------------------------
\* Vocabulary of the properties
\* ------------------------------------------------------------------------
Docs(coll) == {coll[k] : k \in 1..Len(coll)}

\* Same documents, whatever the insertion order
SameStore(c1, c2) == Len(c1) = Len(c2) /\ Docs(c1) = Docs(c2)

Cursor == readLastProcessedBlock(indexer_state)

Completed(r) == r.pc = "done" /\ r.body = "summary"

\* Log positions a run over [from, to] is handed
InRange(from, to) == {k \in 1..Len(log) : from <= log[k].blk /\ log[k].blk <= to}

\* Positions in `range` that write field f of the document keyed tokenId
Writers(range, tokenId, f) ==
  {k \in range : /\ Applies(log[k])
                 /\ WriteOf(log[k]).tokenId = tokenId
                 /\ f \in DOMAIN WriteOf(log[k]).newData}

Last(S) == CHOOSE k \in S : \A m \in S : m <= k

\* Every decoded payload that reaches updateDatabase, about any entity, as
\* the k-th entry of the log
AllTemplates ==
  {Transfer(n) : n \in Names}
  \cup {DomainRegistered(n) : n \in Names}
  \cup {DomainRenewed(n) : n \in Names}
  \cup {TextChanged(n, key) : n \in Names, key \in {"x", "url"}}

\* k = 1 is a value the store may hold already, MaxEvents + 1 one it cannot
DecodedEvents == {Stamp(t, 1, k) : t \in AllTemplates, k \in {1, MaxEvents + 1}}

DecodedWrites ==
  {WriteOf(e) : e \in DecodedEvents} \cup {LiveWriteOf(e) : e \in DecodedEvents}
  \cup {HistoricalWriteOf(e) : e \in DecodedEvents}

\* What a stored key denotes, whichever way it is written
RECURSIVE DecToInt(_, _)
DecToInt(s, acc) ==
  IF s = <<>> THEN acc
  ELSE DecToInt(Tail(s), acc * 10 + (CHOOSE k \in 0..9 : DecDigits[k + 1] = Head(s)))

IsDecimal(s) ==
  /\ s /= <<>>
  /\ \A j \in 1..Len(s) : \E k \in 1..10 : DecDigits[k] = s[j]
  /\ (Len(s) > 1 => s[1] /= "0")

KeyValue(key) ==
  IF Len(key) >= 2 /\ key[1] = "0" /\ key[2] = "x"
  THEN BigInt(key) ELSE DecToInt(key, 0)

\* Every ingestion path keys an event by the same decimal string, whichever
\* form the entity arrives in
KeysAgree ==
  \A e \in DecodedEvents :
    /\ IsDecimal(WriteOf(e).tokenId)
    /\ KeyValue(WriteOf(e).tokenId) = KeyValue(namehash(e.ent))
    /\ \A e2 \in DecodedEvents :
         e2.ent = e.ent =>
           /\ WriteOf(e2).tokenId = WriteOf(e).tokenId
           /\ LiveWriteOf(e2).tokenId = WriteOf(e).tokenId
           /\ HistoricalWriteOf(e2).tokenId = WriteOf(e).tokenId

\* ------------------------------------------------------------------------
\* C1: the backfill loop and the live listeners key an event by the same
\* decimal string whether the entity arrives as a name, as a bytes32 node
\* or as a uint256 tokenId, and the store never holds two documents that
\* denote the same entity.
\* ------------------------------------------------------------------------
C1_OneRecordPerEntity ==
  /\ KeysAgree
  /\ \A j \in 1..Len(domains) :
       /\ IsDecimal(domains[j].tokenId)
       /\ \A m \in 1..Len(domains) :
            KeyValue(domains[m].tokenId) = KeyValue(domains[j].tokenId) => m = j
  /\ \A k \in applied :
       nfail = 0 =>
         \E j \in 1..Len(domains) :
           KeyValue(domains[j].tokenId) = KeyValue(namehash(log[k].ent))

\* one document that a name-keyed or tokenId-keyed event of the backfill and
\* a node-keyed live delivery have both written
C1_Witness ==
  /\ Len(domains) = 1
  /\ "xUsername" \in DOMAIN domains[1]
  /\ "owner" \in DOMAIN domains[1]
  /\ \E k \in applied : \E m \in applied :
       /\ log[k].cat = "TextChanged"
       /\ log[m].cat \in {"Transfer", "DomainRegistered"}
       /\ log[k].blk > d.currentBlock
       /\ log[m].blk <= d.currentBlock
  /\ d.pc = "listening"

\* ------------------------------------------------------------------------
\* C2: when a run has applied its last window (no store write having
\* failed), a field written by two events of the range holds the
\* value of the event with the larger (block, logIndex), whatever the
\* order of the categories inside a window.
\* ------------------------------------------------------------------------
C2_LargerBlockLogIndexWins ==
  \A inv \in Invs :
    (h[inv].pc = "setCursor" /\ clean) =>
      \A doc \in Docs(domains) : \A f \in DOMAIN doc :
        LET W == Writers(InRange(h[inv].lastProcessedBlock + 1, h[inv].currentBlock),
                         doc.tokenId, f)
        IN W /= {} => doc[f] = WriteOf(log[Last(W)]).newData[f]

\* ------------------------------------------------------------------------
\* C3: applying a decoded event a second time through updateDatabase leaves
\* the store as the first application left it, from every reachable store
\* and for every event of every category.
\* ------------------------------------------------------------------------
C3_Idempotent ==
  \A w \in DecodedWrites :
    updateDatabase(updateDatabase(domains, w), w) = updateDatabase(domains, w)

C3_Witness ==
  /\ domains /= <<>>
  /\ \E k \in 1..Len(log) : \E m \in 1..Len(log) :
       /\ k /= m /\ Applies(log[k]) /\ Applies(log[m])
       /\ log[k].cat /= log[m].cat
       /\ updateDatabase(domains, WriteOf(log[k])) = domains
       /\ updateDatabase(domains, WriteOf(log[m])) /= domains

\* ------------------------------------------------------------------------
\* C4: a request whose Authorization header is not `Bearer <secret>` is
\* answered 401 at once and has touched neither the store connection, the
\* event source, the cursor nor the records.
\* ------------------------------------------------------------------------
C4_UnauthorizedNoEffect ==
  \A inv \in Invs :
    (h[inv].pc /= "idle" /\ h[inv].auth /= <<"Bearer ", CRON_SECRET>>) =>
      /\ h[inv].pc = "done"
      /\ h[inv].status = 401
      /\ h[inv].touched = {}

C4_Witness ==
  \E inv \in Invs :
    /\ h[inv].status = 401
    /\ h[inv].auth = <<"Bearer ", "wrong">>
    /\ head > 0
    /\ log /= <<>>
    /\ domains = <<>>
    /\ indexer_state = <<>>
    /\ ~db

\* ------------------------------------------------------------------------
\* C5: once a run has moved on to a later window, the persisted cursor is
\* the end block of the window before it.
\* ------------------------------------------------------------------------
C5_CursorCheckpointedPerWindow ==
  \A inv \in Invs :
    (h[inv].pc \in {"query", "apply"} /\ h[inv].i > h[inv].lastProcessedBlock + 1) =>
      Cursor = h[inv].i - 1

\* ------------------------------------------------------------------------
\* C6: when a run has applied its last window, possibly after earlier runs
\* over the same span were cut short at any await, the records equal those
\* of one uninterrupted run over the whole span from the store the last
\* completed run left (no store write having failed in between), and the
\* cursor it then writes is the captured head.
\* ------------------------------------------------------------------------
C6_RestartEqualsUninterrupted ==
  \A inv \in Invs :
    /\ (h[inv].pc = "setCursor" /\ clean) =>
         SameStore(domains,
                   RunFrom(base, readLastProcessedBlock(baseState) + 1,
                           h[inv].currentBlock))
    /\ Completed(h[inv]) => Cursor = h[inv].currentBlock

C6_Witness ==
  \E inv \in Invs :
    /\ h[inv].pc = "setCursor"
    /\ clean
    /\ cuts = 1
    /\ Len(h[inv].queries) > 4
    /\ Len(domains) > 0
    /\ base /= domains

\* ------------------------------------------------------------------------
\* C8: the windows of a run start at the cursor plus one, follow one
\* another without gap or overlap, span at most BLOCK_CHUNK_SIZE blocks and
\* end at the captured head; so for every category the window results,
\* concatenated, are the result of one query over the whole range.
\* ------------------------------------------------------------------------
WindowsOf(r) ==
  SelectSeq(r.queries, LAMBDA q : q.cat = "Transfer")

RECURSIVE ChunkedQuery(_, _, _)
ChunkedQuery(cat, ws, j) ==
  IF j > Len(ws) THEN <<>>
  ELSE queryFilter(cat, ws[j].from, ws[j].to) \o ChunkedQuery(cat, ws, j + 1)

C8_WindowsPartitionRange ==
  \A inv \in Invs :
    LET r == h[inv]
        ws == WindowsOf(r)
    IN /\ \A j \in 1..Len(r.queries) :
            \E m \in 1..Len(ws) :
              r.queries[j].from = ws[m].from /\ r.queries[j].to = ws[m].to
       /\ \A j \in 1..Len(ws) :
            /\ ws[j].from <= ws[j].to
            /\ ws[j].to - ws[j].from + 1 <= 1000
            /\ ws[j].to <= r.currentBlock
            /\ j = 1 => ws[j].from = r.lastProcessedBlock + 1
            /\ j > 1 => ws[j].from = ws[j - 1].to + 1
       /\ r.pc = "setCursor" =>
            /\ ws /= <<>>
            /\ ws[Len(ws)].to = r.currentBlock
            /\ \A c \in Categories :
                 ChunkedQuery(c, ws, 1)
                   = queryFilter(c, r.lastProcessedBlock + 1, r.currentBlock)

C8_Witness ==
  \E inv \in Invs :
    LET ws == WindowsOf(h[inv])
    IN /\ h[inv].pc = "setCursor"
       /\ Len(ws) >= 2
       /\ ws[Len(ws)].to - ws[Len(ws)].from + 1 < 1000
       /\ \A j \in 1..Len(ws) :
            \E k \in 1..Len(log) : ws[j].from <= log[k].blk /\ log[k].blk <= ws[j].to

\* ------------------------------------------------------------------------
\* C7: no step lowers the persisted lastProcessedBlock, also when two
\* invocations overlap and have captured different heads.
\* ------------------------------------------------------------------------
C7_CursorNeverDecreases == [][Cursor' >= Cursor]_vars

\* ------------------------------------------------------------------------
\* C9: once the daemon is listening and has handled every delivery, each
\* event mined after the head the backfill captured has been handed to
\* updateDatabase at least once.
\* ------------------------------------------------------------------------
C9_NoEventMissed ==
  (d.pc = "listening" /\ pending = {}) =>
    \A k \in 1..Len(log) :
      (d.currentBlock < log[k].blk /\ log[k].blk <= head /\ LiveApplies(log[k]))
        => k \in applied

\* ------------------------------------------------------------------------
\* C10: when the triggered backfill and the live listeners have written the
\* same records and nothing is in flight any more, every field holds the
\* value of the latest event, in (block, logIndex) order, among those
\* applied (no store write having failed).
\* ------------------------------------------------------------------------
C10_InterleavingsAgree ==
  (/\ h["a"].pc \in {"idle", "done"}
   /\ d.pc = "listening"
   /\ pending = {}
   /\ nfail = 0) =>
    \A doc \in Docs(domains) : \A f \in DOMAIN doc :
      LET W == Writers(applied, doc.tokenId, f)
      IN W /= {} => doc[f] = WriteOf(log[Last(W)]).newData[f]

\* ------------------------------------------------------------------------
\* Frame of one write: what updateDatabase may change
\* ------------------------------------------------------------------------
\* The spec's whitelist of metadata keys
Whitelist ==
  ("description" :> "description") @@ ("avatar" :> "avatar")
  @@ ("url" :> "website") @@ ("x" :> "xUsername")
  @@ ("com.github" :> "github") @@ ("com.telegram" :> "telegram")
  @@ ("com.discord" :> "discord")

\* The decoded events of one category, each with the write a path issues
\* for it
WritesOfCategory(cat) ==
  UNION {{[e |-> e, w |-> WriteOf(e)], [e |-> e, w |-> LiveWriteOf(e)],
          [e |-> e, w |-> HistoricalWriteOf(e)]} :
           e \in {x \in DecodedEvents : x.cat = cat}}

RegistrationWrites == WritesOfCategory("DomainRegistered")
MetadataWrites == WritesOfCategory("TextChanged")
TransferWrites == WritesOfCategory("Transfer")

\* Positions of the documents that denote the entity called `name`
RecordsOf(coll, name) ==
  {j \in 1..Len(coll) : KeyValue(coll[j].tokenId) = KeyValue(namehash(name))}

\* `after` is `before` with the fields `set` of the record of `name` given
\* the values of `set` (the record being created if there was none) and
\* nothing else touched
OnlySets(before, after, name, set) ==
  /\ \A j \in 1..Len(before) :
       /\ j <= Len(after)
       /\ after[j].tokenId = before[j].tokenId
       /\ j \notin RecordsOf(before, name) => after[j] = before[j]
       /\ j \in RecordsOf(before, name) =>
            /\ DOMAIN after[j] = DOMAIN before[j] \cup DOMAIN set
            /\ \A f \in DOMAIN set : after[j][f] = set[f]
            /\ \A f \in DOMAIN before[j] \ DOMAIN set : after[j][f] = before[j][f]
  /\ IF RecordsOf(before, name) = {}
     THEN /\ Len(after) = Len(before) + 1
          /\ DOMAIN after[Len(after)] = {"tokenId"} \cup DOMAIN set
          /\ IsDecimal(after[Len(after)].tokenId)
          /\ KeyValue(after[Len(after)].tokenId) = KeyValue(namehash(name))
          /\ \A f \in DOMAIN set : after[Len(after)][f] = set[f]
     ELSE Len(after) = Len(before)

\* ------------------------------------------------------------------------
\* C11: from every reachable store that holds no record for a name, the
\* write of a registration event (name, owner, expires), as the backfill
\* loops and as the live listener issue it, adds exactly one record, keyed
\* by the decimal id of the name, whose fields are name, owner and expiry,
\* the expiry being the decimal string of expires; no other record changes.
\* ------------------------------------------------------------------------
C11_RegistrationCreatesRecord ==
  \A p \in RegistrationWrites :
    RecordsOf(domains, p.e.ent) = {} =>
        LET e == p.e
            after == updateDatabase(domains, p.w)
            rec == after[Len(after)]
        IN /\ Len(after) = Len(domains) + 1
           /\ SubSeq(after, 1, Len(domains)) = domains
           /\ DOMAIN rec = {"tokenId", "name", "owner", "expiry"}
           /\ IsDecimal(rec.tokenId)
           /\ KeyValue(rec.tokenId) = KeyValue(namehash(e.ent))
           /\ rec.name = e.ent
           /\ rec.owner = e.addr
           /\ IsDecimal(rec.expiry)
           /\ DecToInt(rec.expiry, 0) = e.exp

\* a run has just applied a registration to an empty store
C11_Witness ==
  /\ Len(domains) = 1
  /\ DOMAIN domains[1] = {"tokenId", "name", "owner", "expiry"}
  /\ \E k \in applied :
       /\ applied = {k}
       /\ log[k].cat = "DomainRegistered"
       /\ domains[1].owner = log[k].addr
       /\ DecToInt(domains[1].expiry, 0) = log[k].exp

\* ------------------------------------------------------------------------
\* C12: from every reachable store, the write of a metadata event whose key
\* is in the whitelist sets the one field the key maps to, on the record of
\* the node, to the event's value; every other field of that record and
\* every other record stay as they were.
\* ------------------------------------------------------------------------
C12_MetadataSetsOneField ==
  \A p \in MetadataWrites :
    p.e.key \in DOMAIN Whitelist =>
      OnlySets(domains, updateDatabase(domains, p.w), p.e.ent,
               Whitelist[p.e.key] :> p.e.val)

\* a metadata event has been applied to a record that a registration made
C12_Witness ==
  /\ Len(domains) = 1
  /\ DOMAIN domains[1] = {"tokenId", "name", "owner", "expiry", "xUsername"}
  /\ \E k \in applied : \E m \in applied :
       /\ log[k].cat = "DomainRegistered"
       /\ log[m].cat = "TextChanged"
       /\ domains[1].owner = log[k].addr
       /\ domains[1].xUsername = log[m].val

\* ------------------------------------------------------------------------
\* C13: from every reachable store, the write of a transfer event sets
\* owner of the record of the tokenId to `to`; name, expiry and the metadata
\* fields of that record and every other record stay as they were.
\* ------------------------------------------------------------------------
C13_TransferSetsOwnerOnly ==
  \A p \in TransferWrites :
    OnlySets(domains, updateDatabase(domains, p.w), p.e.ent, [owner |-> p.e.addr])

\* a later run has applied a transfer to a record that a registration made
C13_Witness ==
  /\ Len(domains) = 1
  /\ DOMAIN domains[1] = {"tokenId", "name", "owner", "expiry"}
  /\ \E k \in applied : \E m \in applied :
       /\ log[k].cat = "DomainRegistered"
       /\ log[m].cat = "Transfer"
       /\ k < m
       /\ domains[1].owner = log[m].addr
       /\ DecToInt(domains[1].expiry, 0) = log[k].exp

\* ------------------------------------------------------------------------
\* Metadata events with keys inside and outside the whitelist
\* ------------------------------------------------------------------------
MetadataEvents ==
  {DomainRegistered("alice"), TextChanged("alice", "x"),
   TextChanged("alice", "unsupported_key"), TextChanged("alice", "constructor")}

EmitMetadata == EmitFrom(MetadataEvents)

NextMetadata ==
  \/ EmitMetadata
  \/ Mine
  \/ RunStep("a")

SpecMetadata == Init /\ [][NextMetadata]_vars

\* Field names a record can have by the spec's data model
DomainFields ==
  {"tokenId", "name", "owner", "expiry"} \cup {Whitelist[k] : k \in DOMAIN Whitelist}

\* ------------------------------------------------------------------------
\* C14: a metadata event whose key is not in the whitelist is never handed
\* to updateDatabase, so it adds no field and creates no record, and the
\* metadata count of the run summary counts the whitelisted events only.
\* ------------------------------------------------------------------------
C14_UnknownKeyNoWrite ==
  /\ \A k \in applied :
       log[k].cat = "TextChanged" => log[k].key \in DOMAIN Whitelist
  /\ \A doc \in Docs(domains) : DOMAIN doc \subseteq DomainFields
  /\ \A inv \in Invs :
       h[inv].pc = "setCursor" =>
         h[inv].cnt["TextChanged"] =
           Cardinality({k \in InRange(h[inv].lastProcessedBlock + 1,
                                      h[inv].currentBlock) :
                          /\ log[k].cat = "TextChanged"
                          /\ log[k].ok
                          /\ log[k].key \in DOMAIN Whitelist})

\* ------------------------------------------------------------------------
\* The daemon's earlier version (second main() of indexer.js): a backfill
\* of transfers only, then listeners for Transfer, DomainRenewed and
\* TextChanged
\* ------------------------------------------------------------------------
\* this main() never calls connectToServer, so the handle of mongo.js is
\* never set in its process
connectedV2 == FALSE

\* updateDatabase of that version: getDB() throws inside the try block
\* when the handle is not set, and the catch only logs
updateDatabaseV2(coll, w) ==
  IF connectedV2 THEN updateOne(coll, w.tokenId, w.newData) ELSE coll

RECURSIVE ResumeLoopV2(_)
ResumeLoopV2(r) ==
  IF r.queue /= <<>>
  THEN IF log[Head(r.queue)].ok
       THEN [r EXCEPT !.pc = "apply"]
       ELSE ResumeLoopV2([r EXCEPT !.queue = Tail(r.queue), !.errors = @ + 1])
  ELSE IF NextStart(r.i) <= r.currentBlock
       THEN [r EXCEPT !.pc = "query", !.i = NextStart(r.i)]
       ELSE [r EXCEPT !.pc = "listening", !.i = NextStart(r.i)]

LiveWriteOfV2(e) ==
  CASE e.cat = "Transfer" ->
         [tokenId |-> toString(tokenIdFor(e.ent)), newData |-> [owner |-> e.addr]]
    [] e.cat = "DomainRenewed" ->
         [tokenId |-> toString(BigInt(namehash(e.ent))),
          newData |-> [expiry |-> toString(e.exp)]]
    [] e.cat = "TextChanged" ->
         [tokenId |-> toString(BigInt(nodeFor(e.ent))),
          newData |-> (keyMapLiveV2(e.key) :> e.val)]

\* Does a listener of that version reach updateDatabase?  Nothing is
\* subscribed to DomainRegistered.
LiveAppliesV2(e) ==
  /\ e.ok
  /\ e.cat /= "DomainRegistered"
  /\ e.cat = "Transfer" => e.addr /= Undefined
  /\ e.cat = "TextChanged" => Truthy(keyMapLiveV2(e.key))

DaemonStartV2 ==
  /\ d.pc \in {"off", "exited"}
  /\ d' = [DaemonOff EXCEPT !.pc = "poll"]
  /\ UNCHANGED <<budget, head, log, domains, indexer_state, db, h, nfail,
                 base, baseState, clean, cuts, pending, applied>>

DaemonQueryV2 ==
  /\ d.pc = "query"
  /\ LET fromBlock == d.i
         toBlock == ToBlock(d.i, d.currentBlock)
     IN d' = ResumeLoopV2([d EXCEPT
               !.queue = queryFilter("Transfer", fromBlock, toBlock),
               !.queries = Append(@, [cat |-> "Transfer", from |-> fromBlock,
                                      to |-> toBlock])])
  /\ UNCHANGED <<budget, head, log, domains, indexer_state, db, h, nfail,
                 base, baseState, clean, cuts, pending, applied>>

DaemonApplyV2 ==
  /\ d.pc = "apply"
  /\ LET e == log[Head(d.queue)]
     IN /\ domains' = updateDatabaseV2(domains, LiveWriteOfV2(e))
        /\ d' = ResumeLoopV2([d EXCEPT !.queue = Tail(d.queue),
                                       !.cnt[e.cat] = @ + 1])
        /\ applied' = applied \cup {Head(d.queue)}
  /\ UNCHANGED <<budget, head, log, indexer_state, db, h, nfail, base,
                 baseState, clean, cuts, pending>>

LiveApplyV2 ==
  /\ d.pc = "listening"
  /\ \E k \in pending :
       /\ \A m \in pending : log[m].cat = log[k].cat => k <= m
       /\ pending' = pending \ {k}
       /\ IF LiveAppliesV2(log[k])
          THEN /\ domains' = updateDatabaseV2(domains, LiveWriteOfV2(log[k]))
               /\ applied' = applied \cup {k}
          ELSE UNCHANGED <<domains, applied>>
  /\ UNCHANGED <<budget, head, log, indexer_state, db, h, nfail, base,
                 baseState, clean, cuts, d>>

DaemonV2Events ==
  {Transfer("alice"), TextChanged("alice", "x"), TextChanged("alice", "url"),
   Undecoded("Transfer")}

EmitDaemonV2 == EmitFrom(DaemonV2Events)

NextDaemonV2 ==
  \/ EmitDaemonV2
  \/ Mine
  \/ DaemonStartV2
  \/ Poll
  \/ PollFail
  \/ DaemonHead
  \/ DaemonQueryV2
  \/ DaemonApplyV2
  \/ DaemonThrow
  \/ LiveApplyV2

SpecDaemonV2 == Init /\ [][NextDaemonV2]_vars

\* ------------------------------------------------------------------------
\* C15: whichever path delivers it, a metadata event whose key is one of
\* the seven of the whitelist is handed to updateDatabase: no listener and
\* no loop lets a whitelisted key drop.
\* ------------------------------------------------------------------------
C15_SameWhitelistEverywhere ==
  [][\A k \in pending \ pending' :
       (/\ log[k].cat = "TextChanged"
        /\ log[k].ok
        /\ log[k].key \in DOMAIN Whitelist) => k \in applied']_vars

\* ------------------------------------------------------------------------
\* C16: when a backfill has applied its last window, no undecoded event of
\* its range was handed to updateDatabase, every decoded one was, and the
\* run has reported one skipped-event diagnostic per undecoded event.
\* ------------------------------------------------------------------------
C16_UndecodedSkippedAndReported ==
  /\ \A inv \in Invs :
       h[inv].pc = "setCursor" =>
         LET R == InRange(h[inv].lastProcessedBlock + 1, h[inv].currentBlock)
         IN /\ \A k \in R : ~log[k].ok => k \notin applied
            /\ \A k \in R : Applies(log[k]) => k \in applied
            /\ h[inv].errors = Cardinality({k \in R : ~log[k].ok})
  /\ d.pc = "listening" =>
       LET R == InRange(DEPLOYMENT_BLOCK, d.currentBlock)
       IN /\ \A k \in R : ~log[k].ok => k \notin applied
          /\ \A k \in R : HistoricalApplies(log[k]) => k \in applied
          /\ d.errors = Cardinality({k \in R : ~log[k].ok})

\* ------------------------------------------------------------------------
\* Live deliveries with undefined arguments
\* ------------------------------------------------------------------------
LiveEvents ==
  {Transfer("alice"), Without(Transfer("alice"), {"to"}),
   Undecoded("TextChanged"), Undecoded("DomainRenewed"),
   Without(DomainRegistered("alice"), {"owner"})}

EmitLive == EmitFrom(LiveEvents)

NextLive ==
  \/ EmitLive
  \/ Mine
  \/ DaemonStart
  \/ Poll
  \/ DaemonHead
  \/ DaemonQuery
  \/ DaemonApply
  \/ LiveApply

SpecLive == Init /\ [][NextLive]_vars

\* An argument the listener's write uses is undefined
MissingArgs(e) ==
  \/ ~e.ok
  \/ e.cat \in {"Transfer", "DomainRegistered"} /\ e.addr = Undefined
  \/ e.cat = "TextChanged" /\ e.val = Undefined

\* ------------------------------------------------------------------------
\* C17: a listener that is handed a delivery with undefined arguments
\* leaves the store as it is and does not call updateDatabase, and the
\* daemon keeps listening: a well-formed delivery is still handed to
\* updateDatabase.
\* ------------------------------------------------------------------------
C17_LiveMalformedDiscarded ==
  [][\A k \in pending \ pending' :
       /\ d'.pc = "listening"
       /\ MissingArgs(log[k]) => (domains' = domains /\ k \notin applied')
       /\ (~MissingArgs(log[k]) /\ LiveApplies(log[k])) => k \in applied']_vars

\* ------------------------------------------------------------------------
\* Triggered runs against a store that rejects some writes, nothing else
\* failing
\* ------------------------------------------------------------------------
NextFaultyStore ==
  \/ Emit
  \/ Mine
  \/ RunStep("a")

SpecFaultyStore == InitFaulty /\ [][NextFaultyStore]_vars

\* ------------------------------------------------------------------------
\* C18: a store write that fails persists nothing and leaves the run in
\* its loop with the event counted; no run answers 500 because of it; when
\* the last window is done every event of the range has been handed to
\* updateDatabase, and the run then answers 200 with the cursor at the
\* captured head.
\* ------------------------------------------------------------------------
C18_WriteFailureDoesNotAbort ==
  [][\A inv \in Invs :
       /\ (h[inv].pc = "apply" /\ nfail' > nfail) =>
            /\ domains' = domains
            /\ h'[inv].pc \in {"apply", "query", "setCursor"}
            /\ h'[inv].cnt[log[Head(h[inv].queue)].cat]
                 = h[inv].cnt[log[Head(h[inv].queue)].cat] + 1
       /\ h[inv].status /= 500
       /\ h[inv].pc = "setCursor" =>
            \A k \in InRange(h[inv].lastProcessedBlock + 1, h[inv].currentBlock) :
              Applies(log[k]) => k \in applied
       /\ (h[inv].pc = "setCursor" /\ h'[inv] /= h[inv]) =>
            /\ h'[inv].pc = "done"
            /\ h'[inv].status = 200
            /\ h'[inv].body = "summary"
            /\ Cursor' = h[inv].currentBlock]_vars

\* a run has completed although the write of its only event failed
C18_Witness ==
  /\ Completed(h["a"])
  /\ h["a"].status = 200
  /\ nfail = 1
  /\ applied /= {}
  /\ domains = <<>>
  /\ Cursor = h["a"].currentBlock
  /\ Cursor > 0
  /\ h["a"].cnt["DomainRegistered"] = 1

\* ------------------------------------------------------------------------
\* C19: a run that ends while it awaits the head, the cursor or a range
\* query ends with 500 (or, at the cursor read, with the "no new blocks"
\* 200) and leaves records and cursor as they were; and in every state the
\* persisted cursor covers only blocks whose events have all been handed to
\* updateDatabase and is never above the head.
\* ------------------------------------------------------------------------
C19_ErrorKeepsCursorBehind ==
  [][/\ \A inv \in Invs :
          (h[inv].pc \in {"head", "cursor", "query"} /\ h'[inv].pc = "done") =>
            /\ h'[inv].status = 500 \/ (h[inv].pc = "cursor" /\ h'[inv].status = 200)
            /\ h'[inv].status = 500 => h'[inv].body = "Internal Server Error"
            /\ domains' = domains
            /\ indexer_state' = indexer_state
     /\ Cursor <= head
     /\ \A k \in 1..Len(log) :
          (log[k].blk <= Cursor /\ Applies(log[k])) => k \in applied]_vars

\* a range query threw after the run had written records
C19_Witness ==
  /\ h["a"].pc = "done"
  /\ h["a"].status = 500
  /\ "write" \in h["a"].touched
  /\ applied /= {}
  /\ domains /= <<>>
  /\ Cursor = DEPLOYMENT_BLOCK
  /\ head > 1000

\* ------------------------------------------------------------------------
\* Triggered runs with responsive collaborators: every await resumes
\* ------------------------------------------------------------------------
NextRun ==
  \/ Emit
  \/ Mine
  \/ RunStep("a")

SpecRun == Init /\ [][NextRun]_vars /\ WF_vars(RunStep("a"))

\* Number of events of category c a run over (lastProcessedBlock, currentBlock]
\* hands to updateDatabase
Processed(r, c) ==
  Cardinality({k \in InRange(r.lastProcessedBlock + 1, r.currentBlock) :
                 log[k].cat = c /\ Applies(log[k])})

InRun(r) == r.pc \in {"cursor", "query", "apply", "setCursor"}

\* ------------------------------------------------------------------------
\* C20 as stated: every run that answers 200 carries the per-category
\* counts.
\* ------------------------------------------------------------------------
C20_EveryRunEndsWithCounts ==
  \A inv \in Invs :
    (h[inv].pc = "done" /\ h[inv].status = 200) => h[inv].body = "summary"

\* ------------------------------------------------------------------------
\* C20 as amended: an authorized run captures the head once; if the cursor
\* is not below it the run answers 200 "No new blocks to process." without
\* a query; otherwise it queries each window of (cursor, captured head]
\* once per category, in ascending order and never above the captured
\* head, and answers 200 with the counts of the events it handed to
\* updateDatabase; with responsive collaborators every run reaches its
\* answer.
\* ------------------------------------------------------------------------
C20_OnePassThenSummary ==
  /\ [][\A inv \in Invs :
          LET r == h[inv]
          IN /\ (InRun(r) /\ InRun(h'[inv])) => h'[inv].currentBlock = r.currentBlock
             /\ \A j \in 1..Len(r.queries) :
                  /\ r.lastProcessedBlock + 1 <= r.queries[j].from
                  /\ r.queries[j].to <= r.currentBlock
                  /\ \A m \in 1..Len(r.queries) :
                       m < j =>
                         \/ r.queries[m].to < r.queries[j].from
                         \/ /\ r.queries[m].from = r.queries[j].from
                            /\ r.queries[m].cat /= r.queries[j].cat
             /\ (r.pc = "cursor" /\ h'[inv].pc = "done") =>
                  /\ h'[inv].status = 200
                  /\ h'[inv].body = "No new blocks to process."
                  /\ Cursor >= r.currentBlock
             /\ (InRun(r) /\ r.pc /= "cursor" /\ h'[inv].pc = "done") =>
                  /\ r.pc = "setCursor"
                  /\ h'[inv].status = 200
                  /\ h'[inv].body = "summary"
                  /\ \A c \in Categories : h'[inv].cnt[c] = Processed(r, c)
                  /\ Cursor' = r.currentBlock]_vars
  /\ \A inv \in Invs : (h[inv].pc = "connect") ~> (h[inv].pc = "done")

\* a run over two windows has answered with its counts while the head has
\* moved on
C20_Witness ==
  /\ Completed(h["a"])
  /\ h["a"].status = 200
  /\ h["a"].lastProcessedBlock = DEPLOYMENT_BLOCK
  /\ h["a"].currentBlock = 1000
  /\ head = 1001
  /\ h["a"].cnt["Transfer"] + h["a"].cnt["DomainRegistered"] >= 1
  /\ Cursor = 1000

\* ------------------------------------------------------------------------
\* A chain whose deployment block holds an event already when the indexer
\* is first deployed
\* ------------------------------------------------------------------------
FloorEvents == {DomainRegistered("alice"), Transfer("alice")}

InitFloor ==
  /\ head = DEPLOYMENT_BLOCK
  /\ log \in {<<>>} \cup {<<Stamp(t, DEPLOYMENT_BLOCK, 1)>> : t \in FloorEvents}
  /\ domains = <<>>
  /\ indexer_state = <<>>
  /\ db = FALSE
  /\ h = [inv \in Invs |-> IdleHandler]
  /\ nfail = 0
  /\ budget = 0
  /\ base = <<>>
  /\ baseState = <<>>
  /\ clean = TRUE
  /\ cuts = 0
  /\ d = DaemonOff
  /\ pending = {}
  /\ applied = {}

SpecFloor == InitFloor /\ [][NextRun]_vars

\* ------------------------------------------------------------------------
\* C21: a run that found no cursor document takes the cursor to be
\* DEPLOYMENT_BLOCK, its first window starts at DEPLOYMENT_BLOCK itself,
\* and when its last window is done every event of the blocks
\* DEPLOYMENT_BLOCK..currentBlock has been handed to updateDatabase.
\* ------------------------------------------------------------------------
C21_FirstRunCoversFloor ==
  \A inv \in Invs :
    (h[inv].pc = "setCursor" /\ indexer_state = <<>>) =>
      /\ h[inv].lastProcessedBlock = DEPLOYMENT_BLOCK
      /\ h[inv].queries[1].from = DEPLOYMENT_BLOCK
      /\ \A k \in InRange(DEPLOYMENT_BLOCK, h[inv].currentBlock) :
           Applies(log[k]) => k \in applied

\* ------------------------------------------------------------------------
\* C22: when a backfill begins its range (the triggered handler after its
\* cursor read, the daemon after its head capture) and a cursor is
\* persisted, the first block of the range is above the persisted cursor.
\* ------------------------------------------------------------------------
C22_RangeBeginsAtCursor ==
  [][/\ \A inv \in Invs :
          (h[inv].pc = "cursor" /\ h'[inv].pc = "query") =>
            /\ h'[inv].lastProcessedBlock = Cursor
            /\ h'[inv].i > Cursor
     /\ (d.pc = "head" /\ d'.pc = "query" /\ indexer_state /= <<>>) =>
          d'.i > Cursor]_vars

\* ------------------------------------------------------------------------
\* The daemon's listeners, for every category, next to triggered runs that
\* persist the cursor
\* ------------------------------------------------------------------------
LiveAndRunEvents ==
  {Transfer("alice"), DomainRegistered("alice"), DomainRenewed("alice"),
   TextChanged("alice", "x")}

EmitLiveAndRun == EmitFrom(LiveAndRunEvents)

NextLiveAndRun ==
  \/ EmitLiveAndRun
  \/ Mine
  \/ DaemonStart
  \/ Poll
  \/ DaemonHead
  \/ DaemonQuery
  \/ DaemonApply
  \/ LiveApply
  \/ RunStep("a")

SpecLiveAndRun == Init /\ [][NextLiveAndRun]_vars

\* ------------------------------------------------------------------------
\* C23: a step in which a listener handles a delivery, of whatever
\* category, leaves indexer_state as it is, and what it writes to the
\* records is the write of the delivery and nothing that depends on the
\* cursor; indexer_state changes only in the step in which a triggered run
\* writes the head it captured.
\* ------------------------------------------------------------------------
C23_LiveLeavesCursorAlone ==
  [][/\ \A k \in pending \ pending' :
          /\ indexer_state' = indexer_state
          /\ domains' \in {domains, updateDatabase(domains, LiveWriteOf(log[k]))}
     /\ indexer_state' /= indexer_state =>
          \E inv \in Invs :
            /\ h[inv].pc = "setCursor"
            /\ Completed(h'[inv])
            /\ Cursor' = h[inv].currentBlock]_vars

\* the listeners have handled a delivery of every kind above a cursor that
\* a run persisted before
C23_Witness ==
  /\ indexer_state /= <<>>
  /\ d.pc = "listening"
  /\ pending = {}
  /\ Cardinality({log[k].cat : k \in {m \in applied : log[m].blk > Cursor}}) >= 2
  /\ Cursor < head

\* ------------------------------------------------------------------------
\* The daemon's readiness loop against an event source that may reject the
\* head query any number of times
\* ------------------------------------------------------------------------
\* catch (e): the call has rejected, the 2 s timer is started
PollReject ==
  /\ d.pc = "poll"
  /\ d' = [d EXCEPT !.pc = "wait"]
  /\ UNCHANGED <<budget, head, log, domains, indexer_state, db, h, nfail,
                 base, baseState, clean, cuts, pending, applied>>

\* the timer fires; blockNumber is still -1, so the loop calls again
PollRetry ==
  /\ d.pc = "wait"
  /\ d' = [d EXCEPT !.pc = IF d.blockNumber < 0 THEN "poll" ELSE "head"]
  /\ UNCHANGED <<budget, head, log, domains, indexer_state, db, h, nfail,
                 base, baseState, clean, cuts, pending, applied>>

\* The steps main() takes by itself
DaemonRun ==
  \/ DaemonStart
  \/ Poll
  \/ PollReject
  \/ PollRetry
  \/ DaemonHead
  \/ DaemonQuery
  \/ DaemonApply
  \/ LiveApply

NextReadiness ==
  \/ EmitTransfer
  \/ Mine
  \/ DaemonRun

SpecReadiness == Init /\ [][NextReadiness]_vars /\ WF_vars(DaemonRun)

\* ------------------------------------------------------------------------
\* C24: the daemon is past its readiness loop only with a head block >= 0
\* in blockNumber, a rejected head query is followed by the delay and
\* another query, and the loop is left after a bounded number of attempts,
\* however often the event source rejects.
\* ------------------------------------------------------------------------
C24_ReadinessPollBounded ==
  /\ [](d.pc \in {"head", "query", "apply", "listening"} => d.blockNumber >= 0)
  /\ [][(d.pc = "wait" /\ d' /= d) => d'.pc = "poll"]_vars
  /\ (d.pc = "poll") ~> (d.pc \notin {"poll", "wait"})

\* ------------------------------------------------------------------------
\* The file-backed indexer (first main() of indexer.js): no backfill, three
\* listeners, db.json read and rewritten whole by every update.  `domains`
\* holds the parsed content of db.json, one document per key.
\* ------------------------------------------------------------------------
\* keyMap[key] of the file-backed TextChanged listener
keyMapFile(key) ==
  CASE key = "description" -> "description"
    [] key = "avatar" -> "avatar"
    [] key = "x" -> "xUsername"
    [] key \in DOMAIN ObjectPrototype -> ObjectPrototype[key]
    [] OTHER -> ""

\* the keys are the hex strings as they arrive
FileWriteOf(e) ==
  CASE e.cat = "DomainRegistered" ->
         [tokenId |-> namehash(e.ent),
          newData |-> [name |-> e.ent, owner |-> e.addr, expiry |-> toString(e.exp)]]
    [] e.cat = "DomainRenewed" ->
         [tokenId |-> namehash(e.ent), newData |-> [expiry |-> toString(e.exp)]]
    [] e.cat = "TextChanged" ->
         [tokenId |-> nodeFor(e.ent), newData |-> (keyMapFile(e.key) :> e.val)]

\* Nothing is subscribed to Transfer; undecoded arguments make namehash or
\* expires.toString() throw inside the try block
FileApplies(e) ==
  /\ e.ok
  /\ e.cat /= "Transfer"
  /\ e.cat = "TextChanged" => Truthy(keyMapFile(e.key))

\* updateDatabase(tokenId, newData) of the file-backed variant: `readOk` is
\* whether readFileSync and JSON.parse both return; any failure (ENOENT or
\* not) leaves db = {}, and the merged object is written back whole
updateDatabaseFile(file, readOk, w) ==
  LET db_ == IF readOk THEN file ELSE <<>>
  IN updateOne(db_, w.tokenId, w.newData)

FileStart ==
  /\ d.pc \in {"off", "exited"}
  /\ d' = [DaemonOff EXCEPT !.pc = "poll"]
  /\ UNCHANGED <<budget, head, log, domains, indexer_state, db, h, nfail,
                 base, baseState, clean, cuts, pending, applied>>

\* the readiness loop ends and the listeners are attached
FilePoll ==
  /\ d.pc = "poll"
  /\ d' = [d EXCEPT !.blockNumber = head,
                    !.pc = IF head < 0 THEN "poll" ELSE "listening"]
  /\ UNCHANGED <<budget, head, log, domains, indexer_state, db, h, nfail,
                 base, baseState, clean, cuts, pending, applied>>

\* A listener runs; reading db.json back may fail
FileApply ==
  /\ d.pc = "listening"
  /\ \E k \in pending :
       /\ \A m \in pending : log[m].cat = log[k].cat => k <= m
       /\ pending' = pending \ {k}
       /\ IF FileApplies(log[k])
          THEN /\ \/ /\ domains' = updateDatabaseFile(domains, TRUE, FileWriteOf(log[k]))
                     /\ UNCHANGED <<nfail, clean>>
                  \/ /\ nfail < budget
                     /\ nfail' = nfail + 1
                     /\ clean' = FALSE
                     /\ domains' = updateDatabaseFile(domains, FALSE, FileWriteOf(log[k]))
               /\ applied' = applied \cup {k}
          ELSE UNCHANGED <<domains, nfail, clean, applied>>
  /\ UNCHANGED <<budget, head, log, indexer_state, db, h, base, baseState, cuts, d>>

\* The process is killed
FileKill ==
  /\ d.pc \in {"poll", "listening"}
  /\ d' = [DaemonOff EXCEPT !.pc = "exited"]
  /\ pending' = {}
  /\ UNCHANGED <<budget, head, log, domains, indexer_state, db, h, nfail,
                 base, baseState, clean, cuts, applied>>

FileEvents ==
  {DomainRegistered("alice"), DomainRegistered("bob"), DomainRenewed("alice"),
   TextChanged("alice", "x")}

EmitFile == EmitFrom(FileEvents)

NextFile ==
  \/ EmitFile
  \/ Mine
  \/ FileStart
  \/ FilePoll
  \/ PollFail
  \/ FileApply
  \/ FileKill

SpecFile == InitFaulty /\ [][NextFile]_vars

\* ------------------------------------------------------------------------
\* C25: no step removes a record or a field of a record: every key the
\* store holds before a step it holds after it, with at least the fields
\* it had.
\* ------------------------------------------------------------------------
C25_NothingDeleted ==
  [][\A doc \in Docs(domains) :
       \E doc2 \in Docs(domains') :
         /\ doc2.tokenId = doc.tokenId
         /\ DOMAIN doc \subseteq DOMAIN doc2]_vars

\* Applied deliveries that write field f of the document keyed tokenId
LiveWriters(tokenId, f) ==
  {k \in applied : /\ LiveApplies(log[k])
                   /\ LiveWriteOf(log[k]).tokenId = tokenId
                   /\ f \in DOMAIN LiveWriteOf(log[k]).newData}

\* ------------------------------------------------------------------------
\* C26: whichever of the deliveries in flight lands first, a field that a
\* landed update has written, and that no other landed update writes, holds
\* that update's value: an update of other fields of the same record never
\* takes it away (no store write having failed).
\* ------------------------------------------------------------------------
C26_ConcurrentUpdatesBothLand ==
  nfail = 0 =>
    \A k \in applied :
      LiveApplies(log[k]) =>
        LET w == LiveWriteOf(log[k])
        IN \A f \in DOMAIN w.newData :
             LiveWriters(w.tokenId, f) = {k} =>
               \E doc \in Docs(domains) :
                 /\ doc.tokenId = w.tokenId
                 /\ f \in DOMAIN doc
                 /\ doc[f] = w.newData[f]

\* a Transfer and a TextChanged of one block, delivered together, have
\* both landed on the same record
C26_Witness ==
  /\ d.pc = "listening"
  /\ pending = {}
  /\ Len(domains) = 1
  /\ \E k \in applied : \E m \in applied :
       /\ log[k].cat = "Transfer"
       /\ log[m].cat = "TextChanged"
       /\ log[k].blk = log[m].blk
       /\ log[k].blk > d.currentBlock
       /\ m < k
       /\ domains[1].owner = log[k].addr
       /\ domains[1].xUsername = log[m].val

\* Position of a category in the order a window queries them
CatIndex(c) == CHOOSE j \in 1..4 : CatOrder[j] = c

\* The events a backfill that began at block `start` has behind it when it
\* is about to issue the query of category number r.cat for the window
\* that starts at r.i: those of the earlier windows, and those of the
\* categories already done in this window
Behind(r, start) ==
  {k \in InRange(start, ToBlock(r.i, r.currentBlock)) :
     log[k].blk < r.i \/ CatIndex(log[k].cat) < r.cat}

\* ------------------------------------------------------------------------
\* C27: when a backfill (triggered or the daemon's) is about to issue a
\* query, no write is outstanding: every event of the earlier windows, and
\* of the categories already queried in this window, that the loop applies
\* has been handed to updateDatabase and counted; and the queries of a run
\* are issued window by window with strictly increasing start blocks.
\* ------------------------------------------------------------------------
C27_WindowsSequential ==
  /\ \A inv \in Invs :
       LET r == h[inv]
       IN /\ r.pc = "query" =>
               /\ r.queue = <<>>
               /\ \A k \in Behind(r, r.lastProcessedBlock + 1) :
                    Applies(log[k]) => k \in applied
               /\ \A c \in Categories :
                    r.cnt[c] = Cardinality({k \in Behind(r, r.lastProcessedBlock + 1) :
                                              log[k].cat = c /\ Applies(log[k])})
          /\ \A j \in 1..Len(r.queries) : \A m \in 1..Len(r.queries) :
               j < m =>
                 /\ r.queries[j].from <= r.queries[m].from
                 /\ r.queries[j].cat = r.queries[m].cat =>
                      r.queries[j].from < r.queries[m].from
  /\ d.pc = "query" =>
       /\ d.queue = <<>>
       /\ \A k \in Behind(d, DEPLOYMENT_BLOCK) :
            HistoricalApplies(log[k]) => k \in applied
       /\ \A c \in Categories \ {"TextChanged"} :
            d.cnt[c] = Cardinality({k \in Behind(d, DEPLOYMENT_BLOCK) :
                                      log[k].cat = c /\ HistoricalApplies(log[k])})
  /\ \A j \in 1..Len(d.queries) : \A m \in 1..Len(d.queries) :
       j < m =>
         /\ d.queries[j].from <= d.queries[m].from
         /\ d.queries[j].cat = d.queries[m].cat =>
              d.queries[j].from < d.queries[m].from

\* a triggered run and the daemon's backfill are both about to query their
\* second window, each with a write of its first window behind it
C27_Witness ==
  /\ h["a"].pc = "query"
  /\ h["a"].i = 1001
  /\ h["a"].cnt["Transfer"] + h["a"].cnt["DomainRegistered"] >= 1
  /\ d.pc = "query"
  /\ d.i = 1000
  /\ d.cnt["Transfer"] + d.cnt["DomainRegistered"] >= 1

QueriesOf(r, c) ==
  LET q == SelectSeq(r.queries, LAMBDA x : x.cat = c)
  IN [j \in 1..Len(q) |-> [from |-> q[j].from, to |-> q[j].to]]

\* ws covers the blocks from..to once each, in ascending order
Tiles(ws, from, to) ==
  /\ ws /= <<>>
  /\ ws[1].from = from
  /\ ws[Len(ws)].to = to
  /\ \A j \in 1..Len(ws) :
       /\ ws[j].from <= ws[j].to
       /\ j > 1 => ws[j].from = ws[j - 1].to + 1

\* ------------------------------------------------------------------------
\* C29: the step that ends a successful run leaves the cursor at the head
\* that run captured, the run having queried, for every category, exactly
\* the blocks from the cursor it found plus one to that head, once each;
\* nothing else moves the cursor; and a run that begins its range begins at
\* the persisted cursor plus one.  So the ranges of successive runs follow
\* one another without gap and without overlap.
\* ------------------------------------------------------------------------
C29_RunsAreContiguous ==
  [][/\ \A inv \in Invs :
          /\ (h[inv].pc = "setCursor" /\ Completed(h'[inv])) =>
               /\ Cursor' = h[inv].currentBlock
               /\ h[inv].lastProcessedBlock = Cursor
               /\ \A c \in Categories :
                    Tiles(QueriesOf(h[inv], c), Cursor + 1, Cursor')
          /\ (h[inv].pc = "cursor" /\ h'[inv].pc = "query") =>
               /\ h'[inv].lastProcessedBlock = Cursor
               /\ h'[inv].i = Cursor + 1
     /\ indexer_state' /= indexer_state =>
          \E inv \in Invs : h[inv].pc = "setCursor" /\ Completed(h'[inv])]_vars

\* a second successful run has ended: it began one block above the head
\* of the first
C29_Witness ==
  /\ Completed(h["a"])
  /\ h["a"].lastProcessedBlock > DEPLOYMENT_BLOCK
  /\ h["a"].currentBlock > h["a"].lastProcessedBlock
  /\ Cursor = h["a"].currentBlock
  /\ readLastProcessedBlock(baseState) = Cursor
  /\ applied /= {}

\* ------------------------------------------------------------------------
\* C30: the step in which an authorized run has read a cursor that is not
\* below the head it captured ends the run with 200 "No new blocks to
\* process."; the run has issued no range query and no record write, and
\* records and cursor are what they were; a run that has answered so has
\* touched nothing but the connection, the head and the cursor read.
\* ------------------------------------------------------------------------
C30_NoNewBlocksNoEffect ==
  [][\A inv \in Invs :
       /\ (/\ h[inv].pc = "cursor"
           /\ "cursor" \in h'[inv].touched
           /\ Cursor >= h[inv].currentBlock) =>
            /\ h'[inv].pc = "done"
            /\ h'[inv].status = 200
            /\ h'[inv].body = "No new blocks to process."
            /\ h[inv].queries = <<>>
            /\ h[inv].cnt = ZeroCnt
            /\ domains' = domains
            /\ indexer_state' = indexer_state
       /\ (h[inv].pc = "done" /\ h[inv].body = "No new blocks to process.") =>
            /\ h[inv].status = 200
            /\ h[inv].touched = {"connect", "rpc", "cursor"}]_vars

\* a run has found the cursor of an earlier run at the head
C30_Witness ==
  /\ h["a"].pc = "done"
  /\ h["a"].body = "No new blocks to process."
  /\ h["a"].status = 200
  /\ indexer_state /= <<>>
  /\ Cursor = head
  /\ Cursor > DEPLOYMENT_BLOCK
  /\ domains /= <<>>
  /\ domains = base

Max(a, b) == IF a > b THEN a ELSE b

\* ------------------------------------------------------------------------
\* C31: when two invocations that may have overlapped have both answered
\* with their summary, cursor and records are those of the two runs taken
\* one after the other: the cursor is the larger of the two captured heads
\* and the records are those of the events up to that head applied in
\* order.
\* ------------------------------------------------------------------------
C31_OverlapEqualsSerial ==
  (Completed(h["a"]) /\ Completed(h["b"])) =>
    LET top == Max(h["a"].currentBlock, h["b"].currentBlock)
    IN /\ Cursor = top
       /\ SameStore(domains, RunFrom(<<>>, DEPLOYMENT_BLOCK + 1, top))

\* Events of category c with decoded arguments in the range of run r
DecodedInRange(r, c) ==
  {k \in InRange(r.lastProcessedBlock + 1, r.currentBlock) :
     log[k].cat = c /\ log[k].ok}

\* ------------------------------------------------------------------------
\* C32: in the summary of a run the transfer, registration and renewal
\* counts are the numbers of decoded events of those categories in the
\* range of the run, and the metadata count is the number of decoded
\* metadata events of the range whose key is one of the whitelist, whether
\* or not their store writes succeeded.
\* ------------------------------------------------------------------------
C32_SummaryCounts ==
  \A inv \in Invs :
    Completed(h[inv]) =>
      /\ \A c \in {"Transfer", "DomainRegistered", "DomainRenewed"} :
           h[inv].cnt[c] = Cardinality(DecodedInRange(h[inv], c))
      /\ h[inv].cnt["TextChanged"] =
           Cardinality({k \in DecodedInRange(h[inv], "TextChanged") :
                          log[k].key \in DOMAIN Whitelist})

\* ------------------------------------------------------------------------
\* Renewals among registrations and transfers, of two names
\* ------------------------------------------------------------------------
RenewalEvents ==
  {DomainRegistered("alice"), DomainRenewed("alice"), DomainRenewed("bob"),
   Transfer("alice")}

EmitRenewal == EmitFrom(RenewalEvents)

NextRenewal ==
  \/ EmitRenewal
  \/ Mine
  \/ RunStep("a")

SpecRenewal == Init /\ [][NextRenewal]_vars

\* The renewal writes of the three variants the event can reach: the loop of
\* the handler, the loop and the listener of the daemon, and the listener of
\* the second daemon
RenewalWrites ==
  WritesOfCategory("DomainRenewed")
  \cup {[e |-> e, w |-> LiveWriteOfV2(e)] :
          e \in {x \in DecodedEvents : x.cat = "DomainRenewed"}}

\* The owner field of every document of `before` is in `after` as it was,
\* and a document that `after` has in addition has no owner
OwnerKept(before, after) ==
  /\ Len(after) >= Len(before)
  /\ \A j \in 1..Len(before) :
       /\ ("owner" \in DOMAIN after[j]) = ("owner" \in DOMAIN before[j])
       /\ "owner" \in DOMAIN before[j] => after[j].owner = before[j].owner
  /\ \A j \in (Len(before) + 1)..Len(after) : "owner" \notin DOMAIN after[j]

\* ------------------------------------------------------------------------
\* C33: from every reachable store, the write of a renewal event leaves the
\* owner field of every record as it was (absent where it was absent),
\* although the event carries an owner: it sets expiry, and name except in
\* the listener of the second daemon, on the record of the name and nothing
\* else.
\* ------------------------------------------------------------------------
C33_RenewalKeepsOwner ==
  \A p \in RenewalWrites :
    LET after == updateDatabase(domains, p.w)
    IN /\ OwnerKept(domains, after)
       /\ "owner" \notin DOMAIN p.w.newData
       /\ \/ OnlySets(domains, after, p.e.ent,
                      [name |-> p.e.ent, expiry |-> toString(p.e.exp)])
          \/ /\ p.w = LiveWriteOfV2(p.e)
             /\ OnlySets(domains, after, p.e.ent, [expiry |-> toString(p.e.exp)])

\* a renewal has been applied to a record that a registration made: the
\* expiry is the renewal's, the owner still the registration's
C33_Witness ==
  /\ Len(domains) = 1
  /\ DOMAIN domains[1] = {"tokenId", "name", "owner", "expiry"}
  /\ \E k \in applied : \E m \in applied :
       /\ log[k].cat = "DomainRegistered"
       /\ log[m].cat = "DomainRenewed"
       /\ k < m
       /\ log[m].addr /= log[k].addr
       /\ domains[1].owner = log[k].addr
       /\ DecToInt(domains[1].expiry, 0) = log[m].exp

\* ------------------------------------------------------------------------
\* The handler with a store that may refuse the connection
\* ------------------------------------------------------------------------
\* await connectToServer(): client.connect() rejects, connectToServer's own
\* catch logs and calls process.exit(1); the handler's catch never runs and
\* the module-level db is gone with the process
ConnectFail(inv) ==
  /\ h[inv].pc = "connect"
  /\ db' = FALSE
  /\ h' = [h EXCEPT ![inv] = IdleHandler]
  /\ UNCHANGED <<budget, head, log, domains, indexer_state, nfail,
                 base, baseState, clean, cuts, d, pending, applied>>

NextConnect ==
  \/ Emit
  \/ Mine
  \/ RunStep("a")
  \/ Throw("a")
  \/ ConnectFail("a")

SpecConnect == Init /\ [][NextConnect]_vars

\* The invocation is between its security check and its response
Running(r) == r.pc \in {"connect", "head", "cursor", "query", "apply", "setCursor"}

\* ------------------------------------------------------------------------
\* C34: an invocation of the handler ends only by sending a response, whose
\* status is 401, 200 or 500, whichever path it takes (unauthorized, no new
\* blocks, completed run, exception); while it runs it has sent none, and
\* once it has sent one it does nothing more.
\* ------------------------------------------------------------------------
C34_OneResponsePerInvocation ==
  [][\A inv \in Invs :
       h'[inv] /= h[inv] =>
         /\ (Running(h[inv]) /\ ~Running(h'[inv])) =>
              /\ h'[inv].pc = "done"
              /\ h'[inv].status \in {401, 200, 500}
         /\ Running(h'[inv]) => h'[inv].status = 0
         /\ ~Running(h[inv]) =>
              \/ h'[inv].pc = "connect"
              \/ h'[inv].pc = "done" /\ h'[inv].status = 401]_vars

\* ------------------------------------------------------------------------
\* Metadata API (src/index.js) over the domains collection
\* ------------------------------------------------------------------------
\* findOne resolves to null when no document matches
null == [null |-> TRUE]

\* db.collection('domains').findOne({ tokenId: tokenId })
findOne(coll, tokenId) ==
  IF Matching(coll, tokenId) = {} THEN null
  ELSE coll[CHOOSE j \in Matching(coll, tokenId) :
                \A m \in Matching(coll, tokenId) : j <= m]

\* the guard without its name test
Incomplete_missingOnly(metadata) == metadata = null

\* if (!metadata || !metadata.name)
Incomplete(metadata) ==
  \/ metadata = null
  \/ "name" \notin DOMAIN metadata
  \/ metadata.name = ""

\* metadata[f] as a condition: a field that is absent or empty is falsy
Has(metadata, f) == f \in DOMAIN metadata /\ metadata[f] /= <<>>

\* metadata.name + ".wlfi": an absent name concatenates as "undefined"
domainName(metadata) ==
  <<IF "name" \in DOMAIN metadata THEN metadata.name ELSE "undefined", ".wlfi">>

\* Math.max(30, 90 - domainName.length * 3)
fontSize(metadata) ==
  Max(30, 90 - (Len(domainName(metadata)[1]) + Len(domainName(metadata)[2])) * 3)

NotFound == [status |-> 404, type |-> "text", body |-> "Not Found"]
InternalServerError ==
  [status |-> 500, type |-> "text", body |-> "Internal Server Error"]

\* GET /image/:tokenId; readOk: the store answers the findOne
GetImage(coll, tokenId, readOk) ==
  IF ~readOk THEN InternalServerError
  ELSE LET metadata == findOne(coll, tokenId)
       IN IF Incomplete(metadata) THEN NotFound
          ELSE [status |-> 200, type |-> "image/svg+xml",
                body |-> [domainName |-> domainName(metadata),
                          fontSize |-> fontSize(metadata)]]

\* GET /composite-image/:tokenId; fetchOk: the avatar URL answers 2xx
GetCompositeImage(coll, tokenId, readOk, fetchOk) ==
  IF ~readOk THEN InternalServerError
  ELSE LET metadata == findOne(coll, tokenId)
       IN IF Incomplete(metadata) THEN NotFound
          ELSE IF Has(metadata, "avatar") /\ ~fetchOk THEN InternalServerError
          ELSE [status |-> 200, type |-> "image/png",
                body |-> [domainName |-> domainName(metadata),
                          fontSize |-> fontSize(metadata),
                          base |-> IF Has(metadata, "avatar")
                                   THEN metadata.avatar ELSE <<"fallback">>]]

SocialFields ==
  <<<<"xUsername", "X (Twitter)">>, <<"github", "GitHub">>,
    <<"telegram", "Telegram">>, <<"discord", "Discord">>,
    <<"website", "Website">>>>

RECURSIVE Traits(_, _)
Traits(metadata, j) ==
  IF j > Len(SocialFields) THEN <<>>
  ELSE (IF Has(metadata, SocialFields[j][1])
        THEN <<[trait_type |-> SocialFields[j][2],
                value |-> metadata[SocialFields[j][1]]]>>
        ELSE <<>>) \o Traits(metadata, j + 1)

\* GET /metadata/:tokenId; metadata.name.length of an absent name throws
GetMetadata(coll, tokenId, readOk) ==
  IF ~readOk
  THEN [status |-> 500, type |-> "json", body |-> [error |-> "Internal server error"]]
  ELSE LET metadata == findOne(coll, tokenId)
       IN IF Incomplete(metadata)
          THEN [status |-> 404, type |-> "json",
                body |-> [error |-> "Metadata not found or is incomplete for this token"]]
          ELSE IF "name" \notin DOMAIN metadata
          THEN [status |-> 500, type |-> "json",
                body |-> [error |-> "Internal server error"]]
          ELSE [status |-> 200, type |-> "json",
                body |-> [name |-> domainName(metadata),
                          description |->
                            IF Has(metadata, "description") THEN metadata.description
                            ELSE <<"A domain on the WLFI Name Service.">>,
                          image |-> <<IF Has(metadata, "avatar")
                                      THEN "/composite-image/" ELSE "/image/", tokenId>>,
                          attributes |->
                            <<[trait_type |-> "Expires",
                               value |-> IF "expiry" \in DOMAIN metadata
                                         THEN DecToInt(metadata.expiry, 0) ELSE -1],
                              [trait_type |-> "Length",
                               value |-> Len(metadata.name)]>>
                            \o Traits(metadata, 1)]]

\* ------------------------------------------------------------------------
\* Records the handler makes with and without a name, as the API sees them
\* ------------------------------------------------------------------------
ApiEvents ==
  {Transfer("alice"), TextChanged("alice", "avatar"), DomainRegistered("alice"),
   DomainRenewed("alice")}

EmitApi == EmitFrom(ApiEvents)

NextApi ==
  \/ EmitApi
  \/ Mine
  \/ RunStep("a")

SpecApi == Init /\ [][NextApi]_vars

\* The :tokenId values requested: the key of every name, in decimal as the
\* records are keyed and in the hexadecimal form of the name hash
ApiRequests == {NameKey(n) : n \in Names} \cup {namehash(n) : n \in Names}

\* Events written so far under tokenId, and those among them that set name
WrittenUnder(tokenId) ==
  {k \in applied : Applies(log[k]) /\ WriteOf(log[k]).tokenId = tokenId}

NamedBy(tokenId) ==
  {k \in WrittenUnder(tokenId) : log[k].cat \in {"DomainRegistered", "DomainRenewed"}}

\* The answers of the three endpoints to one request
Answers(tokenId, readOk, fetchOk) ==
  <<GetMetadata(domains, tokenId, readOk), GetImage(domains, tokenId, readOk),
    GetCompositeImage(domains, tokenId, readOk, fetchOk)>>

\* The name an answer with record data shows
NameShown(r) ==
  IF "name" \in DOMAIN r.body THEN r.body.name ELSE r.body.domainName

\* ------------------------------------------------------------------------
\* C35: while no registration and no renewal has been written under a
\* tokenId, /metadata, /image and /composite-image answer 404 for it
\* whenever the store answers their read, also when transfers or metadata
\* updates have made a record under it; an endpoint answers 200 with record
\* data only for a tokenId whose record has got its name from such an event.
\* ------------------------------------------------------------------------
C35_NamelessIsNotFound ==
  \A tokenId \in ApiRequests : \A readOk \in BOOLEAN : \A fetchOk \in BOOLEAN :
    \A j \in 1..3 :
      LET r == Answers(tokenId, readOk, fetchOk)[j]
      IN /\ r.status \in {200, 404, 500}
         /\ (NamedBy(tokenId) = {} /\ readOk) => r.status = 404
         /\ r.status = 200 =>
              \E k \in NamedBy(tokenId) : NameShown(r) = <<log[k].ent, ".wlfi">>

\* a transfer and a metadata update have made a record without a name, and
\* the three endpoints answer 404 for its tokenId
C35_Witness ==
  /\ Len(domains) = 1
  /\ DOMAIN domains[1] = {"tokenId", "owner", "avatar"}
  /\ NamedBy(domains[1].tokenId) = {}
  /\ {log[k].cat : k \in WrittenUnder(domains[1].tokenId)} = {"Transfer", "TextChanged"}
  /\ \A j \in 1..3 : Answers(domains[1].tokenId, TRUE, TRUE)[j].status = 404

====
